---- MODULE Spec2Model ----
(***************************************************************************)
(* Model of the discovery scheduler of zachsouder/rfp:                     *)
(* discovery/internal/scheduler (Scheduler, Config, Store), with the       *)
(* search client, the validator and the database seen through the calls    *)
(* the scheduler makes on them.                                            *)
(***************************************************************************)
EXTENDS Integers, Sequences, FiniteSets, TLC

\* ------------------------------------------------------------------ bounds

\* Number of enabled query templates LoadQueryConfigs returns.
NTemplates == 2

\* Total number of cycles started (Run's on-start cycle, ticker ticks, RunOnce calls).
MaxCycles == 2

\* Failures of the search provider and of the database over a whole run
\* (failures that a done context causes are not counted).
MaxFaults == 1

\* Config.MaxConcurrency as set through WithMaxConcurrency (the default is 5).
MaxConcurrency == 1

\* The pages the grounded searches find, in the order the client lists them.
URLSeq == <<"u1", "u2">>

\* Largest step limit (WithMaxSteps) a Research call is made with.
MaxSteps == 5

\* RFPs in the corpus of a Matcher.
MaxRFPs == 2

\* Length of the names AgencyMatches is called on.
MaxNameLen == 5

\* Query parameters of a URL.
MaxParams == 2

\* Grounding chunks, and text parts, of a search response.
MaxChunks == 2

\* The longest chain of redirects a server answers with.
MaxHops == 12

\* Nodes of a body the login-wall detectors are compared on.
MaxNodes == 3

\* Calls of DownloadAndStore in a run.
MaxDownloads == 3

\* ------------------------------------------------------------------ config

\* The step limit of NewAgent.
defaultMaxSteps == 5

RunOnStart == TRUE

SkipSeenURLs == TRUE

\* The goroutines that execute cycles: Run's loop and a caller of RunOnce.
Proc == {"run", "once"}

VARIABLES
    running,    \* Scheduler.running
    stop,       \* the stop channel is closed
    runPc,      \* where Run is: idle (not called), cycle, select, done
    ncycles,    \* cycles started so far; a cycle's id is its number
    cyc,        \* per goroutine: the frame of executeCycle it is in
    queries,    \* discovery.search_queries, row id = index
    results,    \* discovery.search_results, row id = index
    workers,    \* validation goroutines, one per result row (index = row id)
    faults,     \* failures of external calls injected so far
    agent,      \* one call of Agent.Research: its inputs, locals and result
    matcher,    \* a dedup.Matcher, the hints of its last call and the result
    call,       \* one call of a pure function: its name, arguments, result
    downloader  \* a pdf.Downloader: the bucket behind it, its last call

\* The variables of the scheduler.
svars == <<running, stop, runPc, ncycles, cyc, queries, results, workers, faults>>

vars == <<running, stop, runPc, ncycles, cyc, queries, results, workers, faults,
          agent, matcher, call, downloader>>

\* ------------------------------------------------------------------ helpers

Range(s) == {s[i] : i \in DOMAIN s}

ZeroStats ==
    [QueriesExecuted |-> 0, QueriesFailed |-> 0, ResultsFound |-> 0,
     ResultsSkipped |-> 0, ResultsNew |-> 0, Validated |-> 0,
     ValidationFailed |-> 0]

\* The frame of a goroutine that is not inside executeCycle and never was.
NoCycle ==
    [pc |-> "none", ctxDone |-> FALSE, id |-> 0, tmpl |-> 1,
     allNewResults |-> <<>>, next |-> 1, delays |-> 0, stats |-> ZeroStats,
     err |-> "none"]

\* executeCycle entered: fresh stats, configs about to be loaded.
NewCycle(id) == [NoCycle EXCEPT !.pc = "load", !.id = id]

NoWorker == [pc |-> "none", slot |-> FALSE]

\* What search.Client.Search can return when it succeeds: no result, or the
\* pages above (parseGroundingResults lists no URL twice).
Responses == {<<>>, URLSeq}

\* Validator.Validate against the web the model fixes: the first URL is a live
\* RFP page (2xx, classified rfp_page), the others are dead links; on a done
\* context the request fails. An error result carries no content type.
Page(u, ctxDone) ==
    IF ~ctxDone /\ u = URLSeq[1]
    THEN [valid |-> TRUE, ctype |-> "rfp_page"]
    ELSE [valid |-> FALSE, ctype |-> ""]

\* ------------------------------------------------------------------ Store

NewRow(qid, u) ==
    [url |-> u, query_id |-> qid, url_validated |-> FALSE, url_valid |-> FALSE,
     content_type |-> "", research_status |-> "pending"]

\* URLExistsBatch: the urls among `urls` that some row already has.
URLExistsBatch(rows, urls) ==
    [u \in Range(urls) |-> \E i \in DOMAIN rows : rows[i].url = u]

\* The database inside the transaction of SaveSearchQueryAndResults once the
\* query row and the first k result rows are inserted.
StagedInsert(qs, rs, text, cycle, new, k) ==
    LET qid == Len(qs) + 1
    IN  [q |-> Append(qs, [query_text |-> text, results_count |-> Len(new),
                           status |-> "completed", cycle |-> cycle]),
         r |-> rs \o [i \in 1..k |-> NewRow(qid, new[i])]]

\* A transaction that keeps what it wrote although its function failed.
WithTxNoRollback(base, staged, failed) == staged

\* DB.WithTx: rollback when fn (or the commit) fails, the staged writes otherwise.
WithTx(base, staged, failed) == IF failed THEN base ELSE staged

\* UpdateValidationResult: the row as the UPDATE leaves it.
UpdateValidationResult(row, vr) ==
    [row EXCEPT !.url_validated = TRUE, !.url_valid = vr.valid,
                !.content_type = vr.ctype]

\* ------------------------------------------------------------------ research agent

\* HTML as a sequence of nodes: text nodes with their text, input elements
\* with their attributes, anchors with their href. A string of the code is
\* the sequence of its nodes; the empty string is <<>>.
Txt(s) == [kind |-> "text", data |-> s]

Input(attrs) == [kind |-> "input", data |-> attrs]

Anchor(href) == [kind |-> "a", data |-> href]

\* The pages research is called on, each shorter than the 100 characters the
\* login-wall detector looks around a phrase: no body; plain text; a login
\* phrase with no form term in the text; a login phrase with a visible form
\* term; a password input next to the words "Sign in"; a page with two
\* anchors on the same absolute PDF, a relative PDF and a link that is no PDF.
EmptyDoc == <<>>

PlainDoc == <<Txt("Parking RFP")>>

PhraseDoc == <<Txt("Sign in"), Txt("to our newsletter")>>

WallDoc == <<Txt("Sign in"), Txt("Password")>>

PasswordInputDoc == <<Input("type=password required"), Txt("Sign in")>>

PDFDoc ==
    <<Txt("Parking RFP"), Anchor("https://example.com/rfp.pdf"),
      Anchor("https://example.com/rfp.pdf"), Anchor("/docs/specs.pdf"),
      Anchor("https://example.com/other.html")>>

Documents == {EmptyDoc, PlainDoc, PhraseDoc, WallDoc, PasswordInputDoc, PDFDoc}

\* A fetch that failed (network error, HTTP >= 400) and one that brought a body.
FetchError == [err |-> TRUE, body |-> <<>>]

Fetched(doc) == [err |-> FALSE, body |-> doc]

\* What a fetch of the page brings.
FetchOutcomes == {FetchError} \cup {Fetched(d) : d \in Documents}

\* htmlToText: the text nodes of the document, tags and attributes dropped.
htmlToText(htmlContent) == SelectSeq(htmlContent, LAMBDA n : n.kind = "text")

\* strings.Contains(strings.ToLower(s), indicator) for one of loginIndicators,
\* on the strings of the pages.
HasLoginIndicator(s) == s \in {"Sign in"}

\* formTerms.MatchString(strings.ToLower(s)), on the strings of the pages.
HasFormTerm(s) == s \in {"Password", "type=password required"}

\* The href values the PDF pattern captures (".pdf" inside), and the ones
\* with the prefix "http".
IsPDFHref(s) == s \in {"https://example.com/rfp.pdf", "/docs/specs.pdf"}

HasHTTPPrefix(s) ==
    s \in {"https://example.com/rfp.pdf", "https://example.com/other.html"}

\* What the extraction of the page brings, call after call: always an error
\* (provider error, unparseable answer), details with an empty title, details
\* with a title, or an error on the first call and a title from the second on.
ExtractOutcomes == {"error", "empty title", "title", "error then title"}

Pages == [fetch : FetchOutcomes, extract : ExtractOutcomes]

NoDetails == [present |-> FALSE, Title |-> ""]

\* ResearchContext as Research initializes it.
NewContext ==
    [Status |-> "researching", PageContent |-> <<>>,
     ExtractedDetails |-> NoDetails, FoundPDFs |-> <<>>,
     fetchFailed |-> FALSE, pdfSearchDone |-> FALSE]

NoResult == [Success |-> FALSE, Status |-> "", StepsTaken |-> 0, Steps |-> <<>>]

\* No Research call.
NoResearch ==
    [pc |-> "idle", page |-> [fetch |-> FetchError, extract |-> "error"],
     maxSteps |-> 0, stepCount |-> 0, rc |-> NewContext, res |-> NoResult]

\* Research(ctx, result) entered on an agent with WithMaxSteps(n): the locals
\* before the research loop.
NewResearch(page, n) ==
    [NoResearch EXCEPT !.pc = "loop", !.page = page, !.maxSteps = n]

\* detectLoginWall: a login phrase with a form term within 100 characters of
\* it, in the content it is given (all of a page is within that distance).
detectLoginWall(content) ==
    \E i \in DOMAIN content :
        /\ HasLoginIndicator(content[i].data)
        /\ \E j \in DOMAIN content : HasFormTerm(content[j].data)

\* The sequence s with each value kept at its first place only.
RECURSIVE Distinct(_)
Distinct(s) ==
    IF s = <<>> THEN <<>>
    ELSE LET front == Distinct(SubSeq(s, 1, Len(s) - 1))
             last == s[Len(s)]
         IN  IF last \in Range(front) THEN front ELSE Append(front, last)

\* The PDF links actionDiscoverPDFs finds in the content it is given: href
\* values with .pdf, the relative ones skipped, each one once.
PDFLinks(content) ==
    LET hrefs == SelectSeq(content,
                   LAMBDA n : /\ n.kind = "a"
                              /\ IsPDFHref(n.data)
                              /\ HasHTTPPrefix(n.data))
    IN  Distinct([i \in DOMAIN hrefs |-> hrefs[i].data])

\* actionDiscoverPDFs: works on rc.PageContent.
actionDiscoverPDFs(rc) ==
    [rc EXCEPT !.pdfSearchDone = TRUE,
               !.FoundPDFs = @ \o PDFLinks(rc.PageContent)]

\* The actions that set a terminal status, and the synthetic give_up.
TerminalActions ==
    {"mark_complete", "mark_needs_manual", "mark_login_required", "give_up"}

\* Steps of a run recorded with the given action.
StepsOf(steps, action) == {i \in DOMAIN steps : steps[i].Action = action}

\* A decision table without the row for PDF discovery.
decideActionNoPDFs(rc) ==
    IF rc.fetchFailed THEN "mark_needs_manual"
    ELSE IF rc.PageContent = <<>> THEN "fetch_page"
    ELSE IF detectLoginWall(rc.PageContent) THEN "mark_login_required"
    ELSE IF ~rc.ExtractedDetails.present \/ rc.ExtractedDetails.Title = ""
         THEN "extract_details"
    ELSE "mark_complete"

\* decideAction: the decision table, top to bottom.
decideAction(rc) ==
    IF rc.fetchFailed THEN "mark_needs_manual"
    ELSE IF rc.PageContent = <<>> THEN "fetch_page"
    ELSE IF detectLoginWall(rc.PageContent) THEN "mark_login_required"
    ELSE IF ~rc.ExtractedDetails.present \/ rc.ExtractedDetails.Title = ""
         THEN "extract_details"
    ELSE IF ~rc.pdfSearchDone THEN "discover_pdfs"
    ELSE IF rc.ExtractedDetails.present /\ rc.ExtractedDetails.Title # ""
         THEN "mark_complete"
    ELSE "mark_needs_manual"

\* actionFetchPage: the context after the fetch and whether it failed.
actionFetchPage(rc, page) ==
    IF page.fetch.err
    THEN [rc |-> [rc EXCEPT !.fetchFailed = TRUE], err |-> TRUE]
    ELSE [rc |-> [rc EXCEPT !.PageContent = htmlToText(page.fetch.body)],
          err |-> FALSE]

\* GeminiClient.ExtractRFPDetails on its (calls + 1)-th call for the page.
ExtractRFPDetails(page, calls) ==
    IF page.extract = "error" \/ (page.extract = "error then title" /\ calls = 0)
    THEN [details |-> NoDetails, err |-> TRUE]
    ELSE [details |-> [present |-> TRUE,
                       Title |-> IF page.extract = "empty title"
                                 THEN "" ELSE "Parking RFP"],
          err |-> FALSE]

\* actionExtractDetails: the details are stored unless the call failed.
actionExtractDetails(rc, page, calls) ==
    LET x == ExtractRFPDetails(page, calls) IN
    [rc |-> IF x.err THEN rc ELSE [rc EXCEPT !.ExtractedDetails = x.details],
     err |-> x.err]

\* An executeStep that returns the error of its action.
executeStepReturnsErr(rc, page, steps, stepNumber) ==
    LET action == decideAction(rc)
        done ==
          CASE action = "fetch_page" -> actionFetchPage(rc, page)
            [] action = "extract_details" ->
                 actionExtractDetails(rc, page,
                     Cardinality(StepsOf(steps, "extract_details")))
            [] action = "discover_pdfs" ->
                 [rc |-> actionDiscoverPDFs(rc), err |-> FALSE]
            [] action = "mark_complete" ->
                 [rc |-> [rc EXCEPT !.Status = "researched"], err |-> FALSE]
            [] action = "mark_needs_manual" ->
                 [rc |-> [rc EXCEPT !.Status = "needs_manual"], err |-> FALSE]
            [] action = "mark_login_required" ->
                 [rc |-> [rc EXCEPT !.Status = "needs_manual_upload"],
                  err |-> FALSE]
    IN  [rc |-> done.rc,
         step |-> [StepNumber |-> stepNumber, Action |-> action,
                   Success |-> ~done.err],
         err |-> done.err]

\* executeStep: the decided action is executed on the context and recorded;
\* an error of the action shows in the step's Success only, the error
\* executeStep returns is nil.
executeStep(rc, page, steps, stepNumber) ==
    LET action == decideAction(rc)
        done ==
          CASE action = "fetch_page" -> actionFetchPage(rc, page)
            [] action = "extract_details" ->
                 actionExtractDetails(rc, page,
                     Cardinality(StepsOf(steps, "extract_details")))
            [] action = "discover_pdfs" ->
                 [rc |-> actionDiscoverPDFs(rc), err |-> FALSE]
            [] action = "mark_complete" ->
                 [rc |-> [rc EXCEPT !.Status = "researched"], err |-> FALSE]
            [] action = "mark_needs_manual" ->
                 [rc |-> [rc EXCEPT !.Status = "needs_manual"], err |-> FALSE]
            [] action = "mark_login_required" ->
                 [rc |-> [rc EXCEPT !.Status = "needs_manual_upload"],
                  err |-> FALSE]
    IN  [rc |-> done.rc,
         step |-> [StepNumber |-> stepNumber, Action |-> action,
                   Success |-> ~done.err],
         err |-> FALSE]

\* A loop that takes one turn more than the limit.
LoopingOneMore(a) == a.stepCount <= a.maxSteps /\ a.rc.Status = "researching"

\* The condition of the research loop.
Looping(a) == a.stepCount < a.maxSteps /\ a.rc.Status = "researching"

\* A give-up that wants the limit exceeded.
ExhaustedStrict(a) == a.stepCount > a.maxSteps /\ a.rc.Status = "researching"

\* "Handle max steps reached".
Exhausted(a) == a.stepCount >= a.maxSteps /\ a.rc.Status = "researching"

\* The synthetic step appended when the steps ran out.
GiveUp(stepCount) ==
    [StepNumber |-> stepCount + 1, Action |-> "give_up", Success |-> FALSE]

\* ------------------------------------------------------------------ dedup

\* Strings that the matcher takes apart are sequences of one-character
\* strings; len, indexing and slicing are those of Go on ASCII text.

\* strings.ToLower
ToLower(s) ==
    LET upper == <<"A", "B", "C", "D", "E", "F", "G", "H", "I", "J", "K", "L",
                   "M", "N", "O", "P", "Q", "R", "S", "T", "U", "V", "W", "X",
                   "Y", "Z">>
        lower == <<"a", "b", "c", "d", "e", "f", "g", "h", "i", "j", "k", "l",
                   "m", "n", "o", "p", "q", "r", "s", "t", "u", "v", "w", "x",
                   "y", "z">>
    IN  [i \in DOMAIN s |->
            IF \E k \in DOMAIN upper : upper[k] = s[i]
            THEN lower[CHOOSE k \in DOMAIN upper : upper[k] = s[i]]
            ELSE s[i]]

\* strings.TrimSpace
RECURSIVE TrimSpace(_)
TrimSpace(s) ==
    IF s = <<>> THEN s
    ELSE IF Head(s) = " " THEN TrimSpace(Tail(s))
    ELSE IF s[Len(s)] = " " THEN TrimSpace(SubSeq(s, 1, Len(s) - 1))
    ELSE s

\* strings.HasPrefix
HasPrefix(s, prefix) ==
    Len(s) >= Len(prefix) /\ SubSeq(s, 1, Len(prefix)) = prefix

\* strings.Contains
Contains(s, substr) ==
    \E i \in 0..(Len(s) - Len(substr)) :
        SubSeq(s, i + 1, i + Len(substr)) = substr

\* "city of", "town of", "county of", "state of", "village of"
agencyPrefixes ==
    <<  <<"c", "i", "t", "y", " ", "o", "f">>,
        <<"t", "o", "w", "n", " ", "o", "f">>,
        <<"c", "o", "u", "n", "t", "y", " ", "o", "f">>,
        <<"s", "t", "a", "t", "e", " ", "o", "f">>,
        <<"v", "i", "l", "l", "a", "g", "e", " ", "o", "f">>  >>

NormalizeAgency(agency) ==
    LET normalized == TrimSpace(ToLower(agency))
        \* the first prefix of the list that the name starts with (followed
        \* by a space) is cut off, then the loop breaks
        hits == {k \in DOMAIN agencyPrefixes :
                    HasPrefix(normalized, agencyPrefixes[k] \o <<" ">>)}
        first == CHOOSE h \in hits : \A g \in hits : h <= g
        stripped ==
            IF hits = {} THEN normalized
            ELSE TrimSpace(SubSeq(normalized, Len(agencyPrefixes[first]) + 2,
                                  Len(normalized)))
        \* ^([^,]+),\s*(city|town|county|village)\s+of$ : the text before
        \* the first comma, when what follows the comma is one of the four
        \* words, spaces and "of"
        commas == {i \in DOMAIN stripped : stripped[i] = ","}
        comma == CHOOSE c \in commas : \A d \in commas : c <= d
        rest == SubSeq(stripped, comma + 1, Len(stripped))
        words == {SubSeq(agencyPrefixes[k], 1, Len(agencyPrefixes[k]) - 3) :
                     k \in {1, 2, 3, 5}}
        matched ==
            /\ commas # {}
            /\ comma > 1
            /\ \E w \in words : \E n \in 0..Len(rest) : \E m \in 1..Len(rest) :
                  rest = [i \in 1..n |-> " "] \o w \o [i \in 1..m |-> " "]
                         \o <<"o", "f">>
        named == IF matched THEN TrimSpace(SubSeq(stripped, 1, comma - 1))
                 ELSE stripped
        \* [^a-z0-9\s] replaced by nothing
        plain == {"a", "b", "c", "d", "e", "f", "g", "h", "i", "j", "k", "l",
                  "m", "n", "o", "p", "q", "r", "s", "t", "u", "v", "w", "x",
                  "y", "z", "0", "1", "2", "3", "4", "5", "6", "7", "8", "9",
                  " "}
        cleaned == SelectSeq(named, LAMBDA c : c \in plain)
        \* \s+ replaced by one space
        RECURSIVE collapse(_)
        collapse(s) ==
            IF Len(s) < 2 THEN s
            ELSE IF s[1] = " " /\ s[2] = " " THEN collapse(Tail(s))
            ELSE <<Head(s)>> \o collapse(Tail(s))
    IN  TrimSpace(collapse(cleaned))

\* The states of the hints and of the stored RFPs: free text.
States == {"", "IL", "Illinois", "FL"}

stateNames == "ILLINOIS" :> "IL" @@ "FLORIDA" :> "FL"

NormalizeState(st) ==
    LET \* strings.ToUpper(strings.TrimSpace(state))
        upper == ("IL" :> "IL" @@ "Illinois" :> "ILLINOIS" @@ "FL" :> "FL")[st]
        \* the texts that ^[A-Z]{2}$ matches
        twoLetters == {"IL", "FL"}
    IN  IF st = "" THEN ""
        ELSE IF upper \in twoLetters THEN upper
        ELSE IF upper \in DOMAIN stateNames THEN stateNames[upper]
        ELSE ""

\* A date text is the layout it is written in and the day it names (a day
\* of January 2024); layout "" is the empty string, "words" a text that no
\* layout parses.
dateFormats ==
    <<"2006-01-02", "01/02/2006", "1/2/2006", "January 2, 2006",
      "Jan 2, 2006", "2 January 2006", "2006/01/02">>

NoDate == [layout |-> "", day |-> 0]

DateText(layout, day) == [layout |-> layout, day |-> day]

NormalizeDate(date) ==
    IF date = NoDate THEN NoDate
    ELSE IF \E k \in DOMAIN dateFormats : dateFormats[k] = date.layout
         THEN DateText("2006-01-02", date.day)
         ELSE NoDate

\* rfp.DueDate, a *time.Time
NilTime == [present |-> FALSE, day |-> 0]

Time(day) == [present |-> TRUE, day |-> day]

\* time.Time.Format("2006-01-02")
Format(t) == DateText("2006-01-02", t.day)

DateToleranceDays == 3

DatesMatch(date1, date2) ==
    \/ date1 = date2
    \/ /\ date1.layout = "2006-01-02"
       /\ date2.layout = "2006-01-02"
       /\ LET diff == date1.day - date2.day
          IN  (IF diff < 0 THEN 0 - diff ELSE diff) <= DateToleranceDays

min(values) == CHOOSE m \in values : \A v \in values : m <= v

max(a, b) == IF a > b THEN a ELSE b

levenshtein(a, b) ==
    LET \* row i of the matrix from the row above it: row[j + 1] is
        \* matrix[i][j]
        RECURSIVE fill(_, _, _)
        fill(above, i, row) ==
            IF Len(row) = Len(b) + 1 THEN row
            ELSE LET j == Len(row)
                     cost == IF a[i] = b[j] THEN 0 ELSE 1
                 IN  fill(above, i,
                          Append(row, min({above[j + 1] + 1,
                                           row[j] + 1,
                                           above[j] + cost})))
        RECURSIVE matrix(_)
        matrix(i) ==
            IF i = 0 THEN [j \in 1..(Len(b) + 1) |-> j - 1]
            ELSE fill(matrix(i - 1), i, <<i>>)
    IN  IF Len(a) = 0 THEN Len(b)
        ELSE IF Len(b) = 0 THEN Len(a)
        ELSE matrix(Len(a))[Len(b) + 1]

\* 0.8 as a percentage. The similarity 1.0 - distance/maxLen is compared as
\* 100 * (maxLen - distance) >= 80 * maxLen: the float64 quotient and
\* difference round to 0.8 exactly when the fraction is 4/5.
AgencySimilarityThreshold == 80

AgencyMatchesOneWay(a, b) ==
    IF a = <<>> \/ b = <<>> THEN FALSE
    ELSE IF a = b THEN TRUE
    ELSE IF Contains(a, b) THEN TRUE
    ELSE LET distance == levenshtein(a, b)
             maxLen == max(Len(a), Len(b))
         IN  100 * (maxLen - distance) >= AgencySimilarityThreshold * maxLen

AgencyMatches(a, b) ==
    IF a = <<>> \/ b = <<>> THEN FALSE
    ELSE IF a = b THEN TRUE
    ELSE IF Contains(a, b) \/ Contains(b, a) THEN TRUE
    ELSE LET distance == levenshtein(a, b)
             maxLen == max(Len(a), Len(b))
         IN  100 * (maxLen - distance) >= AgencySimilarityThreshold * maxLen

\* Scores are hundredths: the sums of float64 terms the code forms (0.5 or
\* 0.5 * 0.8, then 0.2 or 0.2 * 0.5 or nothing, then 0.3 or 0.3 * 0.5 or
\* nothing) compare with each other and with 0.7 as these integers do.
MatchThreshold == 70

weights == [Agency |-> 50, State |-> 20, Date |-> 30]

\* models.RFP, the fields the matcher reads
RFP(id, agency, st, due) ==
    [ID |-> id, Agency |-> agency, State |-> st, DueDate |-> due]

findCandidates(existingRFPs, normalizedAgency, st) ==
    SelectSeq(existingRFPs,
              LAMBDA rfp :
                /\ ~(st # "" /\ rfp.State # "" /\ rfp.State # st)
                /\ AgencyMatches(normalizedAgency,
                                 NormalizeAgency(rfp.Agency)))

calculateMatchScore(rfp, agency, st, date) ==
    LET rfpAgency == NormalizeAgency(rfp.Agency)
        forState == IF st # ""
                    THEN IF NormalizeState(rfp.State) = st
                         THEN weights.State ELSE 0
                    ELSE weights.State \div 2
        forDate == IF date # NoDate /\ rfp.DueDate.present
                   THEN IF DatesMatch(date, Format(rfp.DueDate))
                        THEN weights.Date ELSE 0
                   ELSE IF date = NoDate THEN weights.Date \div 2 ELSE 0
    IN  IF rfpAgency = agency
        THEN weights.Agency + forState + forDate
        ELSE IF AgencyMatches(rfpAgency, agency)
        THEN (weights.Agency * 8) \div 10 + forState + forDate
        ELSE 0

\* MatchResult
NoMatchResult(reason, checked) ==
    [FoundMatch |-> FALSE, MatchedRFPID |-> 0, MatchScore |-> 0,
     Reason |-> reason, CandidatesChecked |-> checked]

CheckDuplicate(existingRFPs, agency, st, dueDate) ==
    LET \* one pass of the loop over the candidates: before is the index of
        \* bestMatch (0 for nil) and bestScore so far
        pass(before, k, score) ==
            IF score > before.bestScore /\ score >= MatchThreshold
            THEN [bestMatch |-> k, bestScore |-> score]
            ELSE before
        \* the loop over candidates[1..k]
        RECURSIVE loop(_, _, _, _, _)
        loop(candidates, normalizedAgency, normalizedState, normalizedDate, k) ==
            IF k = 0 THEN [bestMatch |-> 0, bestScore |-> 0]
            ELSE pass(loop(candidates, normalizedAgency, normalizedState,
                           normalizedDate, k - 1),
                      k,
                      calculateMatchScore(candidates[k], normalizedAgency,
                                          normalizedState, normalizedDate))
        \* what is returned after the loop
        result(candidates, best) ==
            IF best.bestMatch # 0
            THEN [FoundMatch |-> TRUE,
                  MatchedRFPID |-> candidates[best.bestMatch].ID,
                  MatchScore |-> best.bestScore,
                  Reason |-> "",
                  CandidatesChecked |-> Len(candidates)]
            ELSE NoMatchResult("No matching RFP found", Len(candidates))
        match(normalizedAgency, normalizedState, normalizedDate, candidates) ==
            result(candidates,
                   loop(candidates, normalizedAgency, normalizedState,
                        normalizedDate, Len(candidates)))
        \* the normalized hints, then the candidates found for them
        check(normalizedAgency, normalizedState, normalizedDate) ==
            match(normalizedAgency, normalizedState, normalizedDate,
                  findCandidates(existingRFPs, normalizedAgency,
                                 normalizedState))
    IN  IF agency = <<>> THEN NoMatchResult("No agency hint available", 0)
        ELSE check(NormalizeAgency(agency), NormalizeState(st),
                   NormalizeDate(dueDate))

\* The hints: agencies "", "City of ab", "Ab, Town of", "abc" and "xy", the
\* states above, and due dates in three layouts, empty and unparseable.
Hints ==
    [agency : {<<>>,
               <<"C", "i", "t", "y", " ", "o", "f", " ", "a", "b">>,
               <<"A", "b", ",", " ", "T", "o", "w", "n", " ", "o", "f">>,
               <<"a", "b", "c">>,
               <<"x", "y">>},
     state : States,
     dueDate : {NoDate, DateText("2006-01-02", 15),
                DateText("01/02/2006", 18), DateText("2006/01/02", 20),
                DateText("words", 0)}]

\* A Matcher that no call was made on.
NewMatcher(existingRFPs) ==
    [existingRFPs |-> existingRFPs, pc |-> "new",
     hint |-> [agency |-> <<>>, state |-> "", dueDate |-> NoDate],
     res |-> NoMatchResult("", 0)]

\* No pure function is being called.
NoCall == [fn |-> "", args |-> <<>>, pc |-> "none", out |-> <<>>]

\* ------------------------------------------------------------------ search: URLs

\* URLs are sequences of one-character strings as well.

\* strings.TrimRight
RECURSIVE TrimRight(_, _)
TrimRight(s, cutset) ==
    IF s # <<>> /\ s[Len(s)] \in cutset
    THEN TrimRight(SubSeq(s, 1, Len(s) - 1), cutset)
    ELSE s

\* strings.Index: the first position of substr in s, counted from 0, or -1.
Index(s, substr) ==
    LET at == {i \in 0..(Len(s) - Len(substr)) :
                  SubSeq(s, i + 1, i + Len(substr)) = substr}
    IN  IF at = {} THEN -1 ELSE min(at)

\* url.unescape on the escapes %5B and %5D: the text they stand for.
RECURSIVE unescape(_)
unescape(s) ==
    IF s = <<>> THEN s
    ELSE IF HasPrefix(s, <<"%", "5", "B">>)
    THEN <<"[">> \o unescape(SubSeq(s, 4, Len(s)))
    ELSE IF HasPrefix(s, <<"%", "5", "D">>)
    THEN <<"]">> \o unescape(SubSeq(s, 4, Len(s)))
    ELSE <<Head(s)>> \o unescape(Tail(s))

\* url.escape: brackets are escaped in a path and in a query component;
\* letters, digits, "-", "_", "." and "~" are kept, and so are "/" and the
\* other reserved characters in a path (no query of the model holds one).
RECURSIVE escape(_)
escape(s) ==
    IF s = <<>> THEN s
    ELSE (IF Head(s) = "[" THEN <<"%", "5", "B">>
          ELSE IF Head(s) = "]" THEN <<"%", "5", "D">>
          ELSE <<Head(s)>>) \o escape(Tail(s))

\* url.Parse, for URLs without user info and fragment: the fields of the
\* url.URL canonicalizeURL reads, err for an invalid port or host escape.
Parse(rawURL) ==
    LET digits == {"0", "1", "2", "3", "4", "5", "6", "7", "8", "9"}
        \* getScheme: letters, digits, "+", "-", "." up to a colon
        inScheme(c) == c \notin {"%", "&", "/", ":", "=", "?", "_", "~",
                                 "[", "]", ")", "("}
        \* parseHost: no escape but %25, digits after the last colon
        badHost(authority) ==
            LET colons == {i \in DOMAIN authority : authority[i] = ":"}
            IN  \/ \E i \in DOMAIN authority : authority[i] = "%"
                \/ /\ colons # {}
                   /\ \E i \in DOMAIN authority :
                         /\ \A c \in colons : i > c
                         /\ authority[i] \notin digits
        \* the authority, between "//" and the next "/", and the path
        hier(hasScheme, missingScheme, scheme, rest, hasQuery, rawQuery) ==
            LET hasAuthority ==
                    /\ HasPrefix(rest, <<"/", "/">>)
                    /\ hasScheme \/ ~HasPrefix(rest, <<"/", "/", "/">>)
                afterSlashes == SubSeq(rest, 3, Len(rest))
                slash == Index(afterSlashes, <<"/">>)
                authority == IF slash = -1 THEN afterSlashes
                             ELSE SubSeq(afterSlashes, 1, slash)
                path == IF ~hasAuthority THEN rest
                        ELSE IF slash = -1 THEN <<>>
                        ELSE SubSeq(afterSlashes, slash + 1,
                                    Len(afterSlashes))
            IN  [err |-> missingScheme \/ (hasAuthority /\ badHost(authority)),
                 Scheme |-> scheme,
                 Host |-> IF hasAuthority THEN authority ELSE <<>>,
                 Path |-> unescape(path),
                 ForceQuery |-> hasQuery /\ rawQuery = <<>>,
                 RawQuery |-> rawQuery]
        \* the query: what follows the first "?"
        split(hasScheme, missingScheme, scheme, afterScheme, mark) ==
            hier(hasScheme, missingScheme, scheme,
                 IF mark = -1 THEN afterScheme
                 ELSE SubSeq(afterScheme, 1, mark),
                 mark # -1,
                 IF mark = -1 THEN <<>>
                 ELSE SubSeq(afterScheme, mark + 2, Len(afterScheme)))
        \* the scheme: what precedes the colon at end, if one is there
        scheme(end, hasScheme) ==
            split(hasScheme,
                  end = 1 /\ end <= Len(rawURL) /\ rawURL[end] = ":",
                  IF hasScheme THEN ToLower(SubSeq(rawURL, 1, end - 1))
                  ELSE <<>>,
                  IF hasScheme THEN SubSeq(rawURL, end + 1, Len(rawURL))
                  ELSE rawURL,
                  Index(IF hasScheme THEN SubSeq(rawURL, end + 1, Len(rawURL))
                        ELSE rawURL, <<"?">>))
        getScheme(end) ==
            scheme(end, end <= Len(rawURL) /\ rawURL[end] = ":" /\ end > 1)
        ends == {i \in DOMAIN rawURL : ~inScheme(rawURL[i])}
    IN  getScheme(IF ends = {} THEN Len(rawURL) + 1 ELSE min(ends))

trackingParams ==
    {<<"u", "t", "m", "_", "s", "o", "u", "r", "c", "e">>,
     <<"u", "t", "m", "_", "m", "e", "d", "i", "u", "m">>,
     <<"u", "t", "m", "_", "c", "a", "m", "p", "a", "i", "g", "n">>,
     <<"u", "t", "m", "_", "t", "e", "r", "m">>,
     <<"u", "t", "m", "_", "c", "o", "n", "t", "e", "n", "t">>,
     <<"f", "b", "c", "l", "i", "d">>,
     <<"g", "c", "l", "i", "d">>,
     <<"r", "e", "f">>}

\* url.URL.Query: the key=value pairs of a raw query in their order, the
\* empty pieces dropped.
RECURSIVE Query(_)
Query(rawQuery) ==
    LET amp == Index(rawQuery, <<"&">>)
        piece == IF amp = -1 THEN rawQuery ELSE SubSeq(rawQuery, 1, amp)
        others == IF amp = -1 THEN <<>>
                  ELSE Query(SubSeq(rawQuery, amp + 2, Len(rawQuery)))
        eq == Index(piece, <<"=">>)
        pair == [key |-> unescape(IF eq = -1 THEN piece
                                  ELSE SubSeq(piece, 1, eq)),
                 value |-> unescape(IF eq = -1 THEN <<>>
                                    ELSE SubSeq(piece, eq + 2, Len(piece)))]
    IN  IF rawQuery = <<>> THEN <<>>
        ELSE IF piece = <<>> THEN others
        ELSE <<pair>> \o others

\* url.Values.Encode: the keys in sorted order, the values of one key in
\* the order they were in.
Encode(params) ==
    LET \* the characters of keys in ASCII order
        ascii == <<"-", ".", "0", "1", "2", "3", "4", "5", "6", "7", "8", "9",
                   "A", "B", "C", "D", "T", "X", "Y", "[", "]", "_", "a", "b",
                   "c", "d", "e", "f", "g", "h", "i", "j", "k", "l", "m", "n",
                   "o", "p", "q", "r", "s", "t", "u", "v", "w", "x", "y", "z",
                   "~">>
        ord(c) == CHOOSE i \in DOMAIN ascii : ascii[i] = c
        RECURSIVE less(_, _)
        less(a, b) ==
            IF b = <<>> THEN FALSE
            ELSE IF a = <<>> THEN TRUE
            ELSE IF Head(a) = Head(b) THEN less(Tail(a), Tail(b))
            ELSE ord(Head(a)) < ord(Head(b))
        RECURSIVE write(_, _)
        write(keys, buf) ==
            IF keys = {} THEN buf
            ELSE LET k == CHOOSE x \in keys : \A y \in keys : ~less(y, x)
                     RECURSIVE values(_, _)
                     values(i, b) ==
                         IF i > Len(params) THEN b
                         ELSE IF params[i].key # k THEN values(i + 1, b)
                         ELSE values(i + 1,
                                     (IF b = <<>> THEN b ELSE b \o <<"&">>)
                                     \o escape(k) \o <<"=">>
                                     \o escape(params[i].value))
                 IN  write(keys \ {k}, values(1, buf))
    IN  write({params[i].key : i \in DOMAIN params}, <<>>)

canonicalizeURL(rawURL) ==
    LET \* what is made of the url.URL that url.Parse returned
        canonical(parsed) ==
            LET Scheme == ToLower(parsed.Scheme)
                \* Port and Hostname: around the last colon of the host
                split(lowered) ==
                    LET colons == {i \in DOMAIN lowered : lowered[i] = ":"}
                    IN  IF colons = {}
                        THEN [Hostname |-> lowered, Port |-> <<>>]
                        ELSE [Hostname |-> SubSeq(lowered, 1, (CHOOSE c \in colons : \A d \in colons : d <= c) - 1),
                              Port |-> SubSeq(lowered, (CHOOSE c \in colons : \A d \in colons : d <= c) + 1,
                                              Len(lowered))]
                withoutDefaultPort(lowered, parts) ==
                    IF \/ Scheme = <<"h", "t", "t", "p">>
                          /\ parts.Port = <<"8", "0">>
                       \/ /\ Scheme = <<"h", "t", "t", "p", "s">>
                          /\ parts.Port = <<"4", "4", "3">>
                    THEN parts.Hostname ELSE lowered
                encoded(params) ==
                    IF parsed.RawQuery # <<>> /\ params # <<>>
                    THEN Encode(params) ELSE <<>>
                \* url.URL.String
                String(Host, RawQuery) ==
                    (IF Scheme # <<>> THEN Scheme \o <<":">> ELSE <<>>)
                    \o (IF Host # <<>> \/ parsed.Path # <<>>
                        THEN <<"/", "/">> ELSE <<>>)
                    \o Host \o escape(parsed.Path)
                    \o (IF parsed.ForceQuery \/ RawQuery # <<>>
                        THEN <<"?">> \o RawQuery ELSE <<>>)
            IN  IF parsed.err \/ parsed.Host = <<>> THEN <<>>
                ELSE String(withoutDefaultPort(ToLower(parsed.Host),
                                               split(ToLower(parsed.Host))),
                            encoded(SelectSeq(Query(parsed.RawQuery),
                                LAMBDA p : p.key \notin trackingParams)))
    IN  canonical(Parse(rawURL))

cleanURL(rawURL) ==
    LET TrimSuffix(t, suffix) ==
            IF Len(t) >= Len(suffix)
               /\ SubSeq(t, Len(t) - Len(suffix) + 1, Len(t)) = suffix
            THEN SubSeq(t, 1, Len(t) - Len(suffix))
            ELSE t
        trimmed == TrimRight(rawURL, {".", ",", ";", ":", "!", "?", ")", "]"})
        idx == Index(trimmed, <<"]", "(">>)
        cut == IF idx # -1 THEN SubSeq(trimmed, 1, idx) ELSE trimmed
    IN  canonicalizeURL(TrimSuffix(TrimSuffix(cut, <<"%", "5", "B">>),
                                   <<"%", "5", "D">>))

\* A URL in parts, and its text: scheme with "://", host, port, path, the
\* query parameters joined by "&" after a "?", and what trails them.
Text(u) ==
    LET RECURSIVE join(_)
        join(ps) == IF Len(ps) = 1 THEN ps[1]
                    ELSE ps[1] \o <<"&">> \o join(Tail(ps))
    IN  u.scheme \o u.host \o u.port \o u.path
        \o (IF u.params = <<>> THEN <<>> ELSE <<"?">> \o join(u.params))
        \o u.suffix

\* The URLs cleanURL is called on: three schemes or none, a host in either
\* case or none, with and without port 80, path and up to MaxParams query
\* parameters (a repeated key and a tracking parameter among them), and a
\* trailing ".", "%5D", "%5B%5D" or ".](x".
URLs ==
    LET params == {<<"a", "=", "1">>, <<"a", "=", "2">>, <<"z", "=", "1">>,
                   <<"r", "e", "f", "=", "x">>}
    IN  [scheme : {<<"h", "t", "t", "p", ":", "/", "/">>,
                   <<"h", "t", "t", "p", "s", ":", "/", "/">>,
                   <<"f", "t", "p", ":", "/", "/">>, <<>>},
         host : {<<"a", ".", "c", "o">>, <<"A", ".", "c", "o">>, <<>>},
         port : {<<>>, <<":", "8", "0">>},
         path : {<<>>, <<"/", "p">>},
         params : UNION {[1..n -> params] : n \in 0..MaxParams},
         suffix : {<<>>, <<".">>, <<"%", "5", "D">>,
                   <<"%", "5", "B", "%", "5", "D">>,
                   <<".", "]", "(", "x">>}]

\* "vertexaisearch.cloud.google.com"
redirectHost ==
    <<"v", "e", "r", "t", "e", "x", "a", "i", "s", "e", "a", "r", "c", "h", ".",
      "c", "l", "o", "u", "d", ".", "g", "o", "o", "g", "l", "e", ".", "c", "o",
      "m">>

\* A search result
Result(url, source) == [URL |-> url, Source |-> source]

\* urlPattern.FindAllString for https?://[^\s\)\]"'<>]+ : the matches in
\* text from left to right, each as long as it can be.
RECURSIVE FindAllString(_)
FindAllString(text) ==
    LET start == IF HasPrefix(text, <<"h", "t", "t", "p", ":", "/", "/">>)
                 THEN 7
                 ELSE IF HasPrefix(text,
                                   <<"h", "t", "t", "p", "s", ":", "/", "/">>)
                 THEN 8 ELSE 0
        stops == {i \in DOMAIN text :
                     i > start /\ text[i] \in {" ", ")", "]", "\"", "'", "<", ">"}}
        end == IF stops = {} THEN Len(text) ELSE min(stops) - 1
    IN  IF text = <<>> THEN <<>>
        ELSE IF start = 0 \/ end = start THEN FindAllString(Tail(text))
        ELSE <<SubSeq(text, 1, end)>>
             \o FindAllString(SubSeq(text, end + 1, Len(text)))

extractURLsFromText(text) ==
    LET \* the cleaned matches that are kept, as results
        collect(kept) ==
            [i \in DOMAIN kept |-> Result(kept[i], "text_extraction")]
        clean(matches) ==
            collect(SelectSeq([i \in DOMAIN matches |-> cleanURL(matches[i])],
                              LAMBDA u : u # <<>> /\ ~Contains(u, redirectHost)))
    IN  clean(FindAllString(text))

\* The loops of parseGroundingResults: the results and seenURLs after the
\* items (cleaned chunk URIs, then text found) were gone through.
parseGroundingResultsKeepAll(resp) ==
    LET \* one pass of the loop over the chunks
        chunk(found, URI, cleanedURL) ==
            IF URI = <<>> \/ cleanedURL = <<>>
            THEN found
            ELSE IF Contains(cleanedURL, redirectHost) THEN found
            ELSE Append(found, Result(cleanedURL, "grounding_chunk"))
        RECURSIVE chunks(_)
        chunks(k) ==
            IF k = 0 THEN <<>>
            ELSE chunk(chunks(k - 1), resp.GroundingChunks[k],
                       cleanURL(resp.GroundingChunks[k]))
        RECURSIVE texts(_, _)
        texts(found, rs) ==
            IF rs = <<>> THEN found
            ELSE texts(Append(found, Head(rs)), Tail(rs))
        RECURSIVE parts(_)
        parts(k) ==
            IF k = 0 THEN chunks(Len(resp.GroundingChunks))
            ELSE texts(parts(k - 1), extractURLsFromText(resp.Parts[k]))
    IN  parts(Len(resp.Parts))

parseGroundingResults(resp) ==
    LET seenURLs(found) == {found[i].URL : i \in DOMAIN found}
        \* one pass of the loop over the chunks
        chunk(found, URI, cleanedURL) ==
            IF URI = <<>> \/ cleanedURL = <<>>
               \/ cleanedURL \in seenURLs(found)
            THEN found
            ELSE IF Contains(cleanedURL, redirectHost) THEN found
            ELSE Append(found, Result(cleanedURL, "grounding_chunk"))
        RECURSIVE chunks(_)
        chunks(k) ==
            IF k = 0 THEN <<>>
            ELSE chunk(chunks(k - 1), resp.GroundingChunks[k],
                       cleanURL(resp.GroundingChunks[k]))
        RECURSIVE texts(_, _)
        texts(found, rs) ==
            IF rs = <<>> THEN found
            ELSE IF Head(rs).URL \in seenURLs(found)
            THEN texts(found, Tail(rs))
            ELSE texts(Append(found, Head(rs)), Tail(rs))
        RECURSIVE parts(_)
        parts(k) ==
            IF k = 0 THEN chunks(Len(resp.GroundingChunks))
            ELSE texts(parts(k - 1), extractURLsFromText(resp.Parts[k]))
    IN  parts(Len(resp.Parts))

\* Client.Search once callGeminiWithGrounding has returned resp or failed.
Search(resp) ==
    LET response(found) ==
            [err |-> FALSE, Results |-> found, ResultsCount |-> Len(found)]
    IN  IF resp.err THEN [err |-> TRUE, Results |-> <<>>, ResultsCount |-> 0]
        ELSE response(parseGroundingResults(resp))

\* The responses of a grounded search: an error, or up to MaxChunks
\* grounding chunks and up to MaxChunks text parts. The chunk URIs are
\* "https://a.co/p?ref=x", "https://a.co/p?ref=y", "https://a.co/q", a
\* redirect URL, "ftp://a.co/p" and ""; the texts "see https://a.co/p.",
\* "(https://a.co/q) https://a.co/p?ref=z", the redirect URL and "see".
GeminiResponses ==
    LET https == <<"h", "t", "t", "p", "s", ":", "/", "/">>
        p == https \o <<"a", ".", "c", "o", "/", "p">>
        q == https \o <<"a", ".", "c", "o", "/", "q">>
        ref == <<"?", "r", "e", "f", "=">>
        redirect == https \o redirectHost \o <<"/", "r">>
        see == <<"s", "e", "e">>
        URIs == {p \o ref \o <<"x">>, p \o ref \o <<"y">>, q, redirect,
                 <<"f", "t", "p", ":", "/", "/", "a", ".", "c", "o", "/", "p">>,
                 <<>>}
        Texts == {see \o <<" ">> \o p \o <<".">>,
                  <<"(">> \o q \o <<")", " ">> \o p \o ref \o <<"z">>,
                  redirect, see}
        UpTo(S) == UNION {[1..n -> S] : n \in 0..MaxChunks}
    IN  {[err |-> TRUE, GroundingChunks |-> <<>>, Parts |-> <<>>]}
        \cup [err : {FALSE}, GroundingChunks : UpTo(URIs), Parts : UpTo(Texts)]

\* ------------------------------------------------------------------ validator

maxRedirects == 10

\* The CheckRedirect of the client NewValidator builds, asked with via
\* requests made: the next request is made (no error) or the last response
\* is used.
CheckRedirect(via) ==
    IF via >= maxRedirects THEN "ErrUseLastResponse" ELSE "nil"

\* The bodies of validated URLs: pages of the research agent, a password
\* input and nothing else, and a page with two RFP terms.
Bodies ==
    LET PasswordOnlyDoc == <<Input("type=password required")>>
        RFPDoc == <<Txt("Request for Proposal"), Txt("Due Date: January 15")>>
    IN  {PlainDoc, PhraseDoc, PasswordInputDoc, PasswordOnlyDoc, RFPDoc}

\* The servers a URL is validated against: the first hops requests are
\* answered with a redirect to location (a redirect loop, when there are
\* many), the next one with a status code or not at all (the cause of the
\* error: "no such host", "connection refused", "context deadline exceeded",
\* "x509: unknown authority", "EOF"); the response has a MIME type and a body.
\* The locations are "https://a.co/p", "https://a.co/login",
\* "https://bidnet.com/b" and "https://a.co/d.PDF".
Servers ==
    [hops : 0..MaxHops,
     location : {<<"h", "t", "t", "p", "s", ":", "/", "/", "a", ".", "c", "o", "/", "p">>,
                 <<"h", "t", "t", "p", "s", ":", "/", "/", "a", ".", "c", "o", "/", "l", "o", "g", "i", "n">>,
                 <<"h", "t", "t", "p", "s", ":", "/", "/", "b", "i", "d", "n", "e", "t", ".", "c", "o", "m", "/", "b">>,
                 <<"h", "t", "t", "p", "s", ":", "/", "/", "a", ".", "c", "o", "/", "d", ".", "P", "D", "F">>},
     outcome : [code : {200, 304, 403, 404, 500}, cause : {<<>>}]
               \cup [code : {0},
                     cause : {<<"n", "o", " ", "s", "u", "c", "h", " ", "h", "o", "s", "t">>,
                              <<"c", "o", "n", "n", "e", "c", "t", "i", "o", "n", " ", "r", "e", "f", "u", "s", "e", "d">>,
                              <<"c", "o", "n", "t", "e", "x", "t", " ", "d", "e", "a", "d", "l", "i", "n", "e", " ", "e", "x", "c", "e", "e", "d", "e", "d">>,
                              <<"x", "5", "0", "9", ":", " ", "u", "n", "k", "n", "o", "w", "n", " ", "a", "u", "t", "h", "o", "r", "i", "t", "y">>,
                              <<"E", "O", "F">>}],
     mime : {"text/html", "application/pdf"},
     body : Bodies]

\* http.Client.Do on a GET of rawURL: requests are made while the answer is
\* a redirect and CheckRedirect allows the next one. The error text of a
\* failed request names the method, the URL and the cause.
Do(rawURL, server) ==
    LET URLOf(reqs) == IF reqs <= 1 THEN rawURL ELSE server.location
        RECURSIVE send(_)
        \* reqs requests were made, each answered with a redirect
        send(reqs) ==
            IF reqs > 0 /\ CheckRedirect(reqs) = "ErrUseLastResponse"
            THEN [err |-> <<>>, StatusCode |-> 302, URL |-> URLOf(reqs)]
            ELSE IF reqs < server.hops THEN send(reqs + 1)
            ELSE IF server.outcome.cause # <<>>
            THEN [err |-> <<"G", "e", "t", " ", "\"">> \o URLOf(reqs + 1)
                          \o <<"\"", ":", " ">> \o server.outcome.cause,
                  StatusCode |-> 0, URL |-> URLOf(reqs + 1)]
            ELSE [err |-> <<>>, StatusCode |-> server.outcome.code,
                  URL |-> URLOf(reqs + 1)]
    IN  send(0)

\* Validator.handleError: the status for the error text.
handleError(errStr) ==
    LET has(t) == Contains(errStr, t)
    IN  [Valid |-> FALSE,
         Status |->
            IF has(<<"n", "o", " ", "s", "u", "c", "h", " ", "h", "o", "s", "t">>) THEN "dns_error"
            ELSE IF has(<<"c", "o", "n", "n", "e", "c", "t", "i", "o", "n", " ", "r", "e", "f", "u", "s", "e", "d">>) THEN "connection_refused"
            ELSE IF has(<<"t", "i", "m", "e", "o", "u", "t">>) \/ has(<<"d", "e", "a", "d", "l", "i", "n", "e", " ", "e", "x", "c", "e", "e", "d", "e", "d">>) THEN "timeout"
            ELSE IF has(<<"c", "e", "r", "t", "i", "f", "i", "c", "a", "t", "e">>) \/ has(<<"t", "l", "s">>) \/ has(<<"x", "5", "0", "9">>)
            THEN "ssl_error"
            ELSE IF has(<<"r", "e", "d", "i", "r", "e", "c", "t">>) THEN "too_many_redirects"
            ELSE "connection_failed",
         HTTPCode |-> 0, FinalURL |-> <<>>, WasRedirected |-> FALSE,
         RedirectCount |-> 0, ContentType |-> ""]

\* Validator.detectLoginWall on the body and the final URL. A login pattern
\* and one of type="password", name="password" in the body, on the strings
\* of the bodies (the attributes of an input are written without quotes
\* here), or an authentication pattern in the URL.
ValidatorDetectLoginWall(body, finalURL) ==
    LET hasLoginPattern(s) ==
            s \in {"Sign in", "Password", "type=password required"}
        hasPasswordAttribute(s) == s \in {"type=password required"}
        authURLPatterns ==
            {<<"/", "l", "o", "g", "i", "n">>,
             <<"/", "s", "i", "g", "n", "i", "n">>,
             <<"/", "a", "u", "t", "h">>,
             <<"/", "s", "s", "o">>,
             <<"/", "o", "a", "u", "t", "h">>,
             <<"/", "s", "a", "m", "l">>,
             <<"r", "e", "t", "u", "r", "n", "u", "r", "l", "=">>,
             <<"r", "e", "d", "i", "r", "e", "c", "t", "=">>,
             <<"a", "u", "t", "h", ".", "p", "h", "p">>,
             <<"l", "o", "g", "i", "n", ".", "a", "s", "p", "x">>}
        finalURLLower == ToLower(finalURL)
    IN  \/ /\ \E i \in DOMAIN body : hasLoginPattern(body[i].data)
           /\ \E i \in DOMAIN body : hasPasswordAttribute(body[i].data)
        \/ \E pattern \in authURLPatterns : Contains(finalURLLower, pattern)

detectPortalListing(finalURL) ==
    LET portalDomains ==
            {<<"b", "o", "n", "f", "i", "r", "e", "h", "u", "b", ".", "c", "o", "m">>,
             <<"o", "p", "e", "n", "g", "o", "v", ".", "c", "o", "m">>,
             <<"p", "l", "a", "n", "e", "t", "b", "i", "d", "s", ".", "c", "o", "m">>,
             <<"b", "i", "d", "n", "e", "t", ".", "c", "o", "m">>,
             <<"p", "u", "b", "l", "i", "c", "p", "u", "r", "c", "h", "a", "s", "e", ".", "c", "o", "m">>,
             <<"b", "i", "d", "s", "y", "n", "c", ".", "c", "o", "m">>,
             <<"i", "o", "n", "w", "a", "v", "e", ".", "n", "e", "t">>,
             <<"v", "e", "n", "d", "o", "r", "r", "e", "g", "i", "s", "t", "r", "y", ".", "c", "o", "m">>,
             <<"n", "e", "g", "o", "m", "e", "t", "r", "i", "x", ".", "c", "o", "m">>,
             <<"p", "r", "o", "c", "u", "r", "a", "t", "o", ".", "c", "o", "m">>}
        finalURLLower == ToLower(finalURL)
    IN  \E domain \in portalDomains : Contains(finalURLLower, domain)

\* Validator.detectRFPPage: at least two of the rfpTerms are in the body. On
\* the strings of the bodies: "rfp" in "Parking RFP", "request for proposal"
\* and "due date" in the texts of RFPDoc.
detectRFPPage(body) ==
    LET termsIn(s) ==
            CASE s = "Parking RFP" -> {"rfp"}
              [] s = "Request for Proposal" -> {"request for proposal"}
              [] s = "Due Date: January 15" -> {"due date"}
              [] OTHER -> {}
        matchCount == Cardinality(UNION {termsIn(body[i].data) :
                                            i \in DOMAIN body})
    IN  matchCount >= 2

\* Validator.detectContentType; of the MIME types of the servers,
\* "application/pdf" contains "pdf".
detectContentType(mimeType, finalURL, body) ==
    LET pdf == <<".", "p", "d", "f">>
        HasSuffix(path) ==
            /\ Len(path) >= Len(pdf)
            /\ SubSeq(path, Len(path) - Len(pdf) + 1, Len(path)) = pdf
        \* parsedURL != nil and the lower-case path ends in ".pdf"
        pdfPath(parsedURL) ==
            ~parsedURL.err /\ HasSuffix(ToLower(parsedURL.Path))
    IN  IF mimeType = "application/pdf" THEN "pdf"
        ELSE IF pdfPath(Parse(finalURL)) THEN "pdf"
        ELSE IF ValidatorDetectLoginWall(body, finalURL) THEN "login_wall"
        ELSE IF detectPortalListing(finalURL) THEN "portal_listing"
        ELSE IF detectRFPPage(body) THEN "rfp_page"
        ELSE "other"

\* Validator.Validate against a server. A rawURL that url.Parse accepts is
\* accepted by http.NewRequestWithContext as well.
ValidatorValidate(rawURL, server) ==
    LET \* the result for the response Do returned
        result(resp, WasRedirected) ==
            LET code == resp.StatusCode
            IN  [Valid |-> code >= 200 /\ code < 300,
                 Status |->
                    IF code = 404 THEN "not_found"
                    ELSE IF code >= 400 /\ code < 500 THEN "client_error"
                    ELSE IF code >= 500 THEN "server_error"
                    ELSE IF code >= 200 /\ code < 300
                    THEN IF WasRedirected THEN "valid_redirected"
                         ELSE "valid"
                    ELSE "client_error",
                 HTTPCode |-> code,
                 FinalURL |-> resp.URL,
                 WasRedirected |-> WasRedirected,
                 RedirectCount |-> IF WasRedirected THEN 1 ELSE 0,
                 ContentType |->
                    detectContentType(server.mime, resp.URL, server.body)]
        done(resp) ==
            IF resp.err # <<>> THEN handleError(resp.err)
            ELSE result(resp, resp.URL # rawURL)
        checked(parsed) ==
            IF \/ parsed.err
               \/ parsed.Host = <<>>
               \/ parsed.Scheme \notin {<<"h", "t", "t", "p">>, <<"h", "t", "t", "p", "s">>}
            THEN [Valid |-> FALSE, Status |-> "invalid_url", HTTPCode |-> 0,
                  FinalURL |-> <<>>, WasRedirected |-> FALSE,
                  RedirectCount |-> 0, ContentType |-> ""]
            ELSE done(Do(rawURL, server))
    IN  checked(Parse(rawURL))

\* ------------------------------------------------------------------ pdf

\* A Downloader on an empty bucket, no call made: objects maps the keys in
\* the bucket to the bytes stored under them.
NewDownloader ==
    [objects |-> <<>>, calls |-> 0, pdfURL |-> <<>>, rfpID |-> 0,
     head |-> FALSE, downloaded |-> FALSE, uploaded |-> FALSE,
     result |-> [R2Key |-> <<>>, R2URL |-> FALSE, Error |-> FALSE],
     err |-> FALSE]

\* path.Base: the last element of the path, trailing slashes removed.
Base(name) ==
    LET lastElement(trimmed) ==
            LET slashes == {i \in DOMAIN trimmed : trimmed[i] = "/"}
            IN  IF slashes = {} THEN trimmed
                ELSE SubSeq(trimmed,
                            (CHOOSE i \in slashes : \A j \in slashes : j <= i)
                            + 1,
                            Len(trimmed))
    IN  IF name = <<>> THEN <<".">>
        ELSE IF TrimRight(name, {"/"}) = <<>> THEN <<"/">>
        ELSE lastElement(TrimRight(name, {"/"}))

\* Downloader.generateKey, for rfp ids below 10. The first 8 bytes of the
\* SHA-256 of the URL in hexadecimal are the text "sha256:" and the URL:
\* different URLs have different hashes.
generateKey(pdfURL, rfpID) ==
    LET prefix == <<"p", "d", "f", "s", "/">>
                  \o <<(<<"0", "1", "2", "3", "4", "5", "6", "7", "8",
                          "9">>)[rfpID + 1], "/">>
        pdf == <<".", "p", "d", "f">>
        hashKey == prefix \o <<"s", "h", "a", "2", "5", "6", ":">> \o pdfURL \o pdf
        HasSuffix(t, suffix) ==
            /\ Len(t) >= Len(suffix)
            /\ SubSeq(t, Len(t) - Len(suffix) + 1, Len(t)) = suffix
        \* sanitizeFilename, on names of at most 200 characters
        sanitizeFilename(filename) ==
            [i \in DOMAIN filename |->
                IF filename[i] \in {"/", "\\", ":", "*", "?", "\"", "<", ">",
                                    "|", " "}
                THEN "_" ELSE filename[i]]
        withExtension(filename) ==
            IF HasSuffix(ToLower(filename), pdf) THEN filename
            ELSE filename \o pdf
        named(filename) ==
            IF filename \in {<<>>, <<".">>, <<"/">>} THEN hashKey
            ELSE prefix \o withExtension(sanitizeFilename(filename))
        keyOf(parsedURL) ==
            IF parsedURL.err THEN hashKey ELSE named(Base(parsedURL.Path))
    IN  keyOf(Parse(pdfURL))

\* The PDF URLs of an RFP: "https://a.co/docs/rfp.pdf",
\* "https://b.co/files/rfp.pdf", "https://a.co/get doc", "https://a.co/",
\* "https://b.co" and "https://a.co:x/f.pdf" (which url.Parse rejects).
PDFURLs ==
    {<<"h", "t", "t", "p", "s", ":", "/", "/", "a", ".", "c", "o", "/", "d", "o", "c", "s", "/", "r", "f", "p", ".", "p", "d", "f">>,
     <<"h", "t", "t", "p", "s", ":", "/", "/", "b", ".", "c", "o", "/", "f", "i", "l", "e", "s", "/", "r", "f", "p", ".", "p", "d", "f">>,
     <<"h", "t", "t", "p", "s", ":", "/", "/", "a", ".", "c", "o", "/", "g", "e", "t", " ", "d", "o", "c">>,
     <<"h", "t", "t", "p", "s", ":", "/", "/", "a", ".", "c", "o", "/">>,
     <<"h", "t", "t", "p", "s", ":", "/", "/", "b", ".", "c", "o">>,
     <<"h", "t", "t", "p", "s", ":", "/", "/", "a", ".", "c", "o", ":", "x", "/", "f", ".", "p", "d", "f">>}

\* Downloader.DownloadAndStore(ctx, pdfURL, rfpID), MaxDownloads calls at
\* most. HeadObject answers or fails (head); the download fails or brings
\* the bytes the URL serves at that time; the upload works or fails.
DownloadAndStore ==
    /\ downloader.calls < MaxDownloads
    /\ \E pdfURL \in PDFURLs, rfpID \in 1..MaxRFPs, head \in BOOLEAN,
          body \in {"failed", "bytes 1", "bytes 2"}, upload \in BOOLEAN :
         LET objects == downloader.objects
             \* r2.Client.Exists: any error of HeadObject is "not there"
             Exists(key) == head /\ key \in DOMAIN objects
             frame(r2Key) ==
                 [objects |-> objects,
                  calls |-> downloader.calls + 1,
                  pdfURL |-> pdfURL, rfpID |-> rfpID, head |-> head,
                  downloaded |-> FALSE, uploaded |-> FALSE,
                  result |-> [R2Key |-> r2Key, R2URL |-> FALSE,
                              Error |-> FALSE],
                  err |-> FALSE]
             run(r2Key) ==
                 IF Exists(r2Key)
                 THEN [frame(r2Key) EXCEPT !.result.R2URL = TRUE]
                 ELSE IF body = "failed"
                 THEN [frame(r2Key) EXCEPT !.result.Error = TRUE,
                                           !.err = TRUE]
                 ELSE IF ~upload
                 THEN [frame(r2Key) EXCEPT !.downloaded = TRUE,
                                           !.result.Error = TRUE,
                                           !.err = TRUE]
                 ELSE [frame(r2Key) EXCEPT
                          !.downloaded = TRUE,
                          !.uploaded = TRUE,
                          !.objects = (r2Key :> body) @@ objects,
                          !.result.R2URL = TRUE]
         IN  downloader' = run(generateKey(pdfURL, rfpID))
    /\ UNCHANGED <<svars, agent, matcher, call>>

\* ------------------------------------------------------------------ state

\* The scheduler as New returns it, over empty tables.
SchedulerInit ==
    /\ running = FALSE
    /\ stop = FALSE
    /\ runPc = "idle"
    /\ ncycles = 0
    /\ cyc = [c \in Proc |-> NoCycle]
    /\ queries = <<>>
    /\ results = <<>>
    /\ workers = <<>>
    /\ faults = 0

\* The scheduler never calls the agent it holds: no Research call is made.
Init ==
    /\ SchedulerInit
    /\ agent = NoResearch
    /\ downloader = NewDownloader
    /\ matcher = NewMatcher(<<>>)
    /\ call = NoCall

\* 1 for a call that fails, 0 for one that succeeds.
Failed(b) == IF b THEN 1 ELSE 0

\* n of the external calls of a step fail for a reason of their own: they are
\* taken from the budget.
Inject(n) ==
    /\ faults + n <= MaxFaults
    /\ faults' = faults + n

\* The cycle that inserted result row w (through the row's query).
CycleOf(w) == queries[results[w].query_id].cycle

\* The context of cycle k is done: cancelled, timed out, or the cycle is over
\* (runCycle's deferred cancel; a cycle that left workers behind returned on
\* ctx.Done()).
CtxDoneOf(k) == \A c \in Proc : cyc[c].id = k => cyc[c].ctxDone

\* Workers of cycle k that hold a slot of that cycle's semaphore.
InFlight(k) ==
    Cardinality({w \in DOMAIN workers : workers[w].slot /\ CycleOf(w) = k})

\* A semaphore that admits one worker more than its capacity.
SemFreeOffByOne(k) == InFlight(k) <= MaxConcurrency

\* `sem <- struct{}{}` can proceed.
SemFree(k) == InFlight(k) < MaxConcurrency

\* `break` in the place of `continue`: the template loop is left.
ContinueAsBreak(cy) == [cy EXCEPT !.tmpl = NTemplates + 1]

\* `continue`: on to the next template.
Continue(cy) == [cy EXCEPT !.tmpl = @ + 1]

\* executeCycle returns and an error of Run's cycle ends Run as well.
ReturnEndsRun(c, cy, e) ==
    /\ cyc' = [cyc EXCEPT ![c] =
                 [cy EXCEPT !.pc = "none", !.err = e,
                            !.ctxDone = (c = "run") \/ cy.ctxDone]]
    /\ runPc' = IF c = "run"
                THEN IF e = "error" THEN "done" ELSE "select"
                ELSE runPc

\* executeCycle returns on goroutine c, its frame being cy; for Run's cycle
\* runCycle then runs its deferred cancel() and Run is back in its select.
Return(c, cy, e) ==
    /\ cyc' = [cyc EXCEPT ![c] =
                 [cy EXCEPT !.pc = "none", !.err = e,
                            !.ctxDone = (c = "run") \/ cy.ctxDone]]
    /\ runPc' = IF c = "run" THEN "select" ELSE runPc

\* The worker row-aligned with the table after an insert.
Spawnable(rs) ==
    [i \in 1..Len(rs) |-> IF i <= Len(workers) THEN workers[i] ELSE NoWorker]

\* ------------------------------------------------------------------ Run, RunOnce

\* Run is called, for the first time or after an earlier Run has returned
\* (with a stop channel of its own): it takes the running flag and, with
\* run_on_start, runs a cycle.
Run ==
    /\ runPc \in {"idle", "done"}
    /\ ~running
    /\ ncycles < MaxCycles
    /\ running' = TRUE
    /\ IF RunOnStart
       THEN /\ runPc' = "cycle"
            /\ ncycles' = ncycles + 1
            /\ cyc' = [cyc EXCEPT !["run"] = NewCycle(ncycles + 1)]
       ELSE /\ runPc' = "select"
            /\ UNCHANGED <<ncycles, cyc>>
    /\ stop' = FALSE
    /\ UNCHANGED <<queries, results, workers, faults>>
    /\ UNCHANGED <<agent, matcher, call, downloader>>

\* Run is called while a Run is active: it sees running and returns at once.
RunWhileRunning ==
    /\ running
    /\ UNCHANGED vars

\* case <-ticker.C: the next scheduled cycle.
Tick ==
    /\ runPc = "select"
    /\ ncycles < MaxCycles
    /\ runPc' = "cycle"
    /\ ncycles' = ncycles + 1
    /\ cyc' = [cyc EXCEPT !["run"] = NewCycle(ncycles + 1)]
    /\ UNCHANGED <<running, stop, queries, results, workers, faults>>
    /\ UNCHANGED <<agent, matcher, call, downloader>>

\* Run returns as soon as stop is closed, its cycle still executing.
RunReturnAtOnce ==
    /\ runPc \in {"cycle", "select"}
    /\ stop
    /\ runPc' = "done"
    /\ running' = FALSE
    /\ UNCHANGED <<stop, ncycles, cyc, queries, results, workers, faults>>
    /\ UNCHANGED <<agent, matcher, call, downloader>>

\* case <-stop: Run returns, its deferred function clears the running flag.
RunReturn ==
    /\ runPc = "select"
    /\ stop
    /\ runPc' = "done"
    /\ running' = FALSE
    /\ UNCHANGED <<stop, ncycles, cyc, queries, results, workers, faults>>
    /\ UNCHANGED <<agent, matcher, call, downloader>>

\* main closes the stop channel, Run being started.
CloseStop ==
    /\ runPc \in {"cycle", "select"}
    /\ ~stop
    /\ stop' = TRUE
    /\ UNCHANGED <<running, runPc, ncycles, cyc, queries, results, workers, faults>>
    /\ UNCHANGED <<agent, matcher, call, downloader>>

\* RunOnce is called: it enters executeCycle directly.
RunOnce ==
    /\ cyc["once"].pc = "none"
    /\ ncycles < MaxCycles
    /\ ncycles' = ncycles + 1
    /\ cyc' = [cyc EXCEPT !["once"] = NewCycle(ncycles + 1)]
    /\ UNCHANGED <<running, stop, runPc, queries, results, workers, faults>>
    /\ UNCHANGED <<agent, matcher, call, downloader>>

\* The context of c's cycle becomes done: cycle_timeout passes (Run's cycle)
\* or the caller of RunOnce cancels.
CancelCtx(c) ==
    /\ cyc[c].pc # "none"
    /\ ~cyc[c].ctxDone
    /\ cyc' = [cyc EXCEPT ![c].ctxDone = TRUE]
    /\ UNCHANGED <<running, stop, runPc, ncycles, queries, results, workers, faults>>
    /\ UNCHANGED <<agent, matcher, call, downloader>>

\* ------------------------------------------------------------------ executeCycle

\* s.store.LoadQueryConfigs: a failure is fatal to the cycle.
LoadQueryConfigs(c) ==
    /\ cyc[c].pc = "load"
    /\ \E ok \in BOOLEAN :
         /\ cyc[c].ctxDone => ~ok
         /\ Inject(Failed(~ok /\ ~cyc[c].ctxDone))
         /\ IF ok
            THEN /\ cyc' = [cyc EXCEPT ![c].pc = "search"]
                 /\ UNCHANGED runPc
            ELSE Return(c, cyc[c], "error")
    /\ UNCHANGED <<running, stop, ncycles, queries, results, workers>>
    /\ UNCHANGED <<agent, matcher, call, downloader>>

\* The results of a response that are kept as new: all of them when the
\* seen-URL check is off or failed, the ones it did not find otherwise.
FilterSeen(resp, checked, existing) ==
    IF checked THEN SelectSeq(resp, LAMBDA u : ~existing[u]) ELSE resp

\* Stats that never count a skipped result.
CountResultsNoSkips(st, resp, new, checked) ==
    [st EXCEPT !.QueriesExecuted = @ + 1,
               !.ResultsFound = @ + Len(resp),
               !.ResultsNew = @ + Len(new)]

\* The stats after a response was filtered down to `new`.
CountResults(st, resp, new, checked) ==
    [st EXCEPT !.QueriesExecuted = @ + 1,
               !.ResultsFound = @ + Len(resp),
               !.ResultsSkipped = IF checked THEN @ + (Len(resp) - Len(new)) ELSE @,
               !.ResultsNew = @ + Len(new)]

\* One turn of the template loop of executeSearchPhase: the ctx.Done() poll,
\* the grounded search, SaveSearchQuery for an empty response, otherwise
\* URLExistsBatch, the filter, SaveSearchQueryAndResults and the query delay.
\* Every call on the search client or the Store may fail.
SearchTemplate(c) ==
    LET cy == cyc[c] IN
    /\ cy.pc = "search"
    /\ cy.tmpl <= NTemplates
    /\ \/ /\ cy.ctxDone
          /\ Return(c, cy, "error")
          /\ UNCHANGED <<queries, results, workers, faults>>
       \/ /\ ~cy.ctxDone
          /\ Inject(1)
          /\ cyc' = [cyc EXCEPT ![c] =
                       Continue([cy EXCEPT !.stats.QueriesFailed = @ + 1])]
          /\ UNCHANGED <<runPc, queries, results, workers>>
       \/ /\ ~cy.ctxDone
          /\ \E saved \in BOOLEAN :
               /\ Inject(Failed(~saved))
               /\ queries' = IF saved
                             THEN Append(queries,
                                    [query_text |-> cy.tmpl, results_count |-> 0,
                                     status |-> "completed", cycle |-> cy.id])
                             ELSE queries
          /\ cyc' = [cyc EXCEPT ![c] =
                       Continue([cy EXCEPT !.stats.QueriesExecuted = @ + 1])]
          /\ UNCHANGED <<runPc, results, workers>>
       \/ /\ ~cy.ctxDone
          /\ \E resp \in Responses \ {<<>>}, exists \in BOOLEAN :
               LET checked == SkipSeenURLs /\ exists
                   new == FilterSeen(resp, checked, URLExistsBatch(results, resp))
                   n   == Len(new)
                   st  == [cy EXCEPT !.stats =
                             CountResults(@, resp, new, checked)]
               IN  IF n = 0
                   THEN /\ Inject(Failed(SkipSeenURLs /\ ~exists))
                        /\ cyc' = [cyc EXCEPT ![c] = Continue(st)]
                        /\ UNCHANGED <<queries, results, workers>>
                   ELSE \E k \in 0..n, failed \in BOOLEAN :
                          /\ k < n => failed
                          /\ Inject(Failed(SkipSeenURLs /\ ~exists)
                                    + Failed(failed))
                          /\ LET db == WithTx([q |-> queries, r |-> results],
                                         StagedInsert(queries, results, cy.tmpl,
                                                      cy.id, new, k),
                                         failed)
                             IN  /\ queries' = db.q
                                 /\ results' = db.r
                                 /\ workers' = Spawnable(db.r)
                          /\ cyc' = [cyc EXCEPT ![c] =
                               Continue(IF failed THEN st
                                        ELSE [st EXCEPT !.allNewResults =
                                                @ \o [i \in 1..n |->
                                                        Len(results) + i],
                                              !.delays = @ + 1])]
          /\ UNCHANGED runPc
    /\ UNCHANGED <<running, stop, ncycles>>
    /\ UNCHANGED <<agent, matcher, call, downloader>>

\* The template loop is over: executeValidationPhase is entered; with nothing
\* to validate it returns at once and so does the cycle.
SearchPhaseDone(c) ==
    LET cy == cyc[c] IN
    /\ cy.pc = "search"
    /\ cy.tmpl > NTemplates
    /\ IF Len(cy.allNewResults) = 0
       THEN Return(c, cy, "nil")
       ELSE /\ cyc' = [cyc EXCEPT ![c].pc = "validate"]
            /\ UNCHANGED runPc
    /\ UNCHANGED <<running, stop, ncycles, queries, results, workers, faults>>
    /\ UNCHANGED <<agent, matcher, call, downloader>>

\* A worker as the dispatch loop starts it, holding the slot just taken.
StartedWorker == [pc |-> "validate", slot |-> TRUE]

\* One turn of the dispatch loop: the select between ctx.Done() and the
\* semaphore; either ready case may be taken.
Dispatch(c) ==
    LET cy == cyc[c] IN
    /\ cy.pc = "validate"
    /\ cy.next <= Len(cy.allNewResults)
    /\ \/ /\ cy.ctxDone
          /\ Return(c, cy, "error")
          /\ UNCHANGED workers
       \/ /\ SemFree(cy.id)
          /\ workers' = [workers EXCEPT ![cy.allNewResults[cy.next]] =
                            StartedWorker]
          /\ cyc' = [cyc EXCEPT ![c].next = @ + 1]
          /\ UNCHANGED runPc
    /\ UNCHANGED <<running, stop, ncycles, queries, results, faults>>
    /\ UNCHANGED <<agent, matcher, call, downloader>>

\* wg.Wait() returns: all workers of this phase are done; the cycle returns.
Wait(c) ==
    LET cy == cyc[c] IN
    /\ cy.pc = "validate"
    /\ cy.next > Len(cy.allNewResults)
    /\ \A w \in Range(cy.allNewResults) : workers[w].pc = "done"
    /\ Return(c, cy, "nil")
    /\ UNCHANGED <<running, stop, ncycles, queries, results, workers, faults>>
    /\ UNCHANGED <<agent, matcher, call, downloader>>

\* ------------------------------------------------------------------ validation workers

\* The worker after the stats update: it sleeps ValidationDelay, slot in hand.
Counted(wk) == [wk EXCEPT !.pc = "sleep"]

\* The body of a worker up to its sleep: s.validator.Validate(ctx, sr.URL),
\* s.store.UpdateValidationResult (its failure is only logged), then the stats
\* update under the phase's mutex.
Validate(w) ==
    LET k  == CycleOf(w)
        vr == Page(results[w].url, CtxDoneOf(k))
    IN
    /\ workers[w].pc = "validate"
    /\ \E ok \in BOOLEAN :
         /\ CtxDoneOf(k) => ~ok
         /\ Inject(Failed(~ok /\ ~CtxDoneOf(k)))
         /\ results' = IF ok
                       THEN [results EXCEPT ![w] = UpdateValidationResult(@, vr)]
                       ELSE results
    /\ cyc' = [c \in Proc |->
                 IF cyc[c].id = k
                 THEN IF vr.valid
                      THEN [cyc[c] EXCEPT !.stats.Validated = @ + 1]
                      ELSE [cyc[c] EXCEPT !.stats.ValidationFailed = @ + 1]
                 ELSE cyc[c]]
    /\ workers' = [workers EXCEPT ![w] = Counted(@)]
    /\ UNCHANGED <<running, stop, runPc, ncycles, queries>>
    /\ UNCHANGED <<agent, matcher, call, downloader>>

\* time.Sleep(ValidationDelay) is over: the deferred slot release and wg.Done().
Release(w) ==
    /\ workers[w].pc = "sleep"
    /\ workers' = [workers EXCEPT ![w] =
                      [pc |-> "done", slot |-> FALSE]]
    /\ UNCHANGED <<running, stop, runPc, ncycles, cyc, queries, results, faults>>
    /\ UNCHANGED <<agent, matcher, call, downloader>>

\* ------------------------------------------------------------------ Agent.Research

\* One turn of the research loop: stepCount++, executeStep, append the step.
ResearchStep ==
    /\ agent.pc = "loop"
    /\ Looping(agent)
    /\ LET n == agent.stepCount + 1
           x == executeStep(agent.rc, agent.page, agent.res.Steps, n)
       IN  agent' = IF x.err
                    THEN [agent EXCEPT
                            !.pc = "returned", !.stepCount = n, !.rc = x.rc,
                            !.res = [Success |-> FALSE, Status |-> "failed",
                                     StepsTaken |-> n, Steps |-> @.Steps]]
                    ELSE [agent EXCEPT !.stepCount = n, !.rc = x.rc,
                                       !.res.Steps = Append(@, x.step)]
    /\ UNCHANGED <<svars, matcher, call, downloader>>

\* The loop is over: give_up when the steps ran out, then the result is
\* filled in and returned.
ResearchReturn ==
    /\ agent.pc = "loop"
    /\ ~Looping(agent)
    /\ LET out == Exhausted(agent)
           status == IF out THEN "research_exhausted" ELSE agent.rc.Status
       IN  agent' = [agent EXCEPT
                       !.pc = "returned",
                       !.rc.Status = status,
                       !.res = [Success |-> TRUE, Status |-> status,
                                StepsTaken |-> agent.stepCount,
                                Steps |-> IF out
                                          THEN Append(@.Steps,
                                                      GiveUp(agent.stepCount))
                                          ELSE @.Steps]]
    /\ UNCHANGED <<svars, matcher, call, downloader>>

\* ------------------------------------------------------------------ Matcher

\* The Deduper on a completed extraction: it consults the Matcher on the
\* hints against the corpus (which holds the RFPs inserted before) and
\* inserts an RFP, with the parsed due date, when no match is found.
Dedupe ==
    /\ Len(matcher.existingRFPs) < MaxRFPs
    /\ \E h \in Hints :
         LET id == Len(matcher.existingRFPs) + 1
             parsed == NormalizeDate(h.dueDate)
             due == IF parsed = NoDate THEN NilTime ELSE Time(parsed.day)
             \* the matcher once res was returned for the hints
             insert(res) ==
                 [existingRFPs |->
                      IF res.FoundMatch THEN matcher.existingRFPs
                      ELSE Append(matcher.existingRFPs,
                                  RFP(id, h.agency, h.state, due)),
                  pc |-> "deduped", hint |-> h, res |-> res]
         IN  matcher' = insert(CheckDuplicate(matcher.existingRFPs,
                                              h.agency, h.state, h.dueDate))
    /\ UNCHANGED <<svars, agent, call, downloader>>

\* One call of CheckDuplicate on a Matcher.
Check ==
    /\ matcher.pc = "new"
    /\ \E h \in Hints :
         matcher' = [matcher EXCEPT
                       !.pc = "checked",
                       !.hint = h,
                       !.res = CheckDuplicate(matcher.existingRFPs,
                                              h.agency, h.state, h.dueDate)]
    /\ UNCHANGED <<svars, agent, call, downloader>>

\* ------------------------------------------------------------------ pure functions

\* The function fn applied to its arguments.
Eval(fn, args) ==
    CASE fn = "AgencyMatches" -> AgencyMatches(args[1], args[2])
      [] fn = "cleanURL" -> cleanURL(Text(args[1]))
      [] fn = "Search" -> Search(args[1])
      [] fn = "Validate" -> ValidatorValidate(args[1], args[2])
      [] fn = "detectLoginWall" ->
            [validator |-> ValidatorDetectLoginWall(args[1], args[2]),
             agent |-> detectLoginWall(args[1])]
        [] fn = "decideAction" ->
              [Name |-> decideAction(args[1]), rc |-> args[1]]

\* The call in progress returns its result.
CallReturn ==
    /\ call.pc = "called"
    /\ call' = [call EXCEPT !.pc = "returned",
                            !.out = Eval(call.fn, call.args)]
    /\ UNCHANGED <<svars, agent, matcher, downloader>>

\* ------------------------------------------------------------------ specification

Next ==
    \/ Run
    \/ RunWhileRunning
    \/ Tick
    \/ RunReturn
    \/ CloseStop
    \/ RunOnce
    \/ \E c \in Proc : CancelCtx(c)
    \/ \E c \in Proc : LoadQueryConfigs(c)
    \/ \E c \in Proc : SearchTemplate(c)
    \/ \E c \in Proc : SearchPhaseDone(c)
    \/ \E c \in Proc : Dispatch(c)
    \/ \E c \in Proc : Wait(c)
    \/ \E w \in DOMAIN workers : Validate(w)
    \/ \E w \in DOMAIN workers : Release(w)

Spec == Init /\ [][Next]_vars

\* Research called on any page with any step limit up to the bound.
ResearchInit ==
    /\ SchedulerInit
    /\ agent \in {NewResearch(p, n) : p \in Pages, n \in 0..MaxSteps}
    /\ downloader = NewDownloader
    /\ matcher = NewMatcher(<<>>)
    /\ call = NoCall

ResearchNext == ResearchStep \/ ResearchReturn

ResearchSpec == ResearchInit /\ [][ResearchNext]_vars

\* The Deduper over a corpus that starts empty.
DedupSpec == Init /\ [][Dedupe]_vars

\* The corpora of a Matcher: up to MaxRFPs RFPs with different ids, in any
\* order.
Corpora ==
    LET stored == {RFP(id, a, s, d) :
                      id \in 1..MaxRFPs, a \in {h.agency : h \in Hints},
                      s \in States,
                      d \in {NilTime, Time(15)}}
    IN  UNION {{c \in [1..n -> stored] :
                   \A i, j \in 1..n : c[i].ID = c[j].ID => i = j} :
               n \in 0..MaxRFPs}

\* CheckDuplicate called on a Matcher over any corpus.
MatcherInit ==
    /\ SchedulerInit
    /\ agent = NoResearch
    /\ downloader = NewDownloader
    /\ matcher \in {NewMatcher(c) : c \in Corpora}
    /\ call = NoCall

MatcherSpec == MatcherInit /\ [][Check]_vars

\* A call of fn on args.
NewCall(fn, args) == [fn |-> fn, args |-> args, pc |-> "called", out |-> <<>>]

\* AgencyMatches called on any two names over two letters, the empty name
\* included.
AgencyInit ==
    /\ SchedulerInit
    /\ agent = NoResearch
    /\ downloader = NewDownloader
    /\ matcher = NewMatcher(<<>>)
    /\ LET Names == UNION {[1..n -> {"a", "b"}] : n \in 0..MaxNameLen}
       IN  call \in {NewCall("AgencyMatches", <<a, b>>) : a, b \in Names}

AgencySpec == AgencyInit /\ [][CallReturn]_vars

\* cleanURL called on any of the URLs.
CleanInit ==
    /\ SchedulerInit
    /\ agent = NoResearch
    /\ downloader = NewDownloader
    /\ matcher = NewMatcher(<<>>)
    /\ call \in {NewCall("cleanURL", <<u>>) : u \in URLs}

CleanSpec == CleanInit /\ [][CallReturn]_vars

\* Search called, the provider answering with any of the responses.
SearchInit ==
    /\ SchedulerInit
    /\ agent = NoResearch
    /\ downloader = NewDownloader
    /\ matcher = NewMatcher(<<>>)
    /\ call \in {NewCall("Search", <<resp>>) : resp \in GeminiResponses}

SearchSpec == SearchInit /\ [][CallReturn]_vars

\* Validate called on "https://a.co/p", "https://a.co/redirect",
\* "ftp://a.co/p" or "a.co/p" against any of the servers.
ValidateInit ==
    /\ SchedulerInit
    /\ agent = NoResearch
    /\ downloader = NewDownloader
    /\ matcher = NewMatcher(<<>>)
    /\ LET ValidatedURLs ==
               {<<"h", "t", "t", "p", "s", ":", "/", "/", "a", ".", "c", "o", "/", "p">>,
                <<"h", "t", "t", "p", "s", ":", "/", "/", "a", ".", "c", "o", "/", "r", "e", "d", "i", "r", "e", "c", "t">>,
                <<"f", "t", "p", ":", "/", "/", "a", ".", "c", "o", "/", "p">>,
                <<"a", ".", "c", "o", "/", "p">>}
       IN  call \in {NewCall("Validate", <<u, server>>) :
                        u \in ValidatedURLs, server \in Servers}

ValidateSpec == ValidateInit /\ [][CallReturn]_vars

\* The two login-wall detectors called on the same body, the validator's
\* with the final URL "https://a.co/p" or "https://a.co/login" as well. The
\* bodies are made of up to MaxNodes nodes: a login phrase, the word
\* "Password", other text, a password input.
DetectInit ==
    /\ SchedulerInit
    /\ agent = NoResearch
    /\ downloader = NewDownloader
    /\ matcher = NewMatcher(<<>>)
    /\ LET Nodes == {Txt("Sign in"), Txt("Password"), Txt("to our newsletter"),
                     Txt("Parking RFP"), Input("type=password required")}
           finalURLs == {<<"h", "t", "t", "p", "s", ":", "/", "/", "a", ".", "c", "o", "/", "p">>,
                         <<"h", "t", "t", "p", "s", ":", "/", "/", "a", ".", "c", "o", "/", "l", "o", "g", "i", "n">>}
       IN  call \in {NewCall("detectLoginWall", <<body, u>>) :
                        body \in UNION {[1..n -> Nodes] : n \in 0..MaxNodes},
                        u \in finalURLs}

DetectSpec == DetectInit /\ [][CallReturn]_vars

\* decideAction called on any ResearchContext: each field takes the values
\* the agent's actions can give it, in every combination. The call returns
\* the action's name and leaves the context it was given.
DecideInit ==
    /\ SchedulerInit
    /\ agent = NoResearch
    /\ downloader = NewDownloader
    /\ matcher = NewMatcher(<<>>)
    /\ LET contents == {<<>>, <<Txt("Parking RFP")>>,
                        <<Txt("Sign in"), Txt("Password")>>,
                        <<Txt("Sign in"), Txt("to our newsletter")>>,
                        <<Txt("Password")>>}
           details == {NoDetails, [present |-> TRUE, Title |-> ""],
                       [present |-> TRUE, Title |-> "Parking RFP"]}
       IN  call \in {NewCall("decideAction",
                       <<[NewContext EXCEPT !.PageContent = content,
                                            !.ExtractedDetails = d,
                                            !.fetchFailed = failed,
                                            !.pdfSearchDone = done]>>) :
                        content \in contents, d \in details,
                        failed \in BOOLEAN, done \in BOOLEAN}

DecideSpec == DecideInit /\ [][CallReturn]_vars

\* A Downloader, called again and again on the PDF URLs of the RFPs.
DownloadSpec == Init /\ [][DownloadAndStore]_vars

\* ------------------------------------------------------------------ properties

\* Goroutine c is inside executeCycle.
Executing(c) == cyc[c].pc # "none"

\* The rows of search_results and of search_queries that cycle k inserted.
ResultsOf(k) == {i \in DOMAIN results : CycleOf(i) = k}

QueriesOf(k) == {q \in DOMAIN queries : queries[q].cycle = k}

StoredURLs == {results[i].url : i \in DOMAIN results}

\* Grounded-search calls the cycle of frame cy has issued.
SearchCalls(cy) == cy.stats.QueriesExecuted + cy.stats.QueriesFailed

\* C1: at most one discovery cycle of the Scheduler executes at any time.
C1_OneCycleAtATime == Cardinality({c \in Proc : Executing(c)}) <= 1

\* C2: once stop is closed while Run's cycle executes, that cycle issues no
\* further grounded search and starts no further validation.
C2_StopEndsRunCycle ==
    [][(stop /\ Executing("run"))
         => /\ SearchCalls(cyc'["run"]) = SearchCalls(cyc["run"])
            /\ cyc'["run"].next = cyc["run"].next]_vars

\* C3: a validation worker that has not finished belongs to a cycle that is
\* still inside its validation phase (no worker outlives its cycle).
C3_WorkersEndWithCycle ==
    \A w \in DOMAIN workers :
        workers[w].pc \in {"validate", "sleep"}
            => \E c \in Proc : /\ cyc[c].id = CycleOf(w)
                               /\ cyc[c].pc = "validate"

\* C4: once the cycle context is done during the validation phase, the
\* dispatch loop starts no further worker.
C4_NoDispatchAfterCancel ==
    [][\A c \in Proc :
         (cyc[c].pc = "validate" /\ cyc[c].ctxDone)
            => cyc'[c].next = cyc[c].next]_vars

\* C5: the workers of a cycle that hold a semaphore slot never number more
\* than max_concurrency, and a worker gives its slot back only from its sleep,
\* that is after Validate, the attempt to persist and the validation delay.
C5_Semaphore ==
    /\ [](\A k \in 1..ncycles : InFlight(k) <= MaxConcurrency)
    /\ [][\A w \in DOMAIN workers :
            (workers[w].slot /\ ~workers'[w].slot)
               => workers[w].pc = "sleep" /\ workers'[w].pc = "done"]_vars

\* C5 witness: the semaphore is full, a worker sleeps with its slot and the
\* dispatch loop has a result left that waits for it.
C5_Witness ==
    \E c \in Proc :
        /\ cyc[c].pc = "validate"
        /\ cyc[c].next <= Len(cyc[c].allNewResults)
        /\ InFlight(cyc[c].id) = MaxConcurrency
        /\ \E w \in ResultsOf(cyc[c].id) : workers[w].pc = "sleep"

\* C6: no two search_results rows have the same canonical URL.
C6_CanonicalURLUnique ==
    \A i, j \in DOMAIN results : results[i].url = results[j].url => i = j

\* C7: a cycle whose grounded searches found nothing new so far, at a moment
\* when every URL a grounded search can return is already stored, inserts no
\* search_results row.
C7_RerunInsertsNothing ==
    [][\A c \in Proc :
         (/\ Executing(c)
          /\ cyc[c].stats.ResultsNew = 0
          /\ Range(URLSeq) \subseteq StoredURLs)
            => \A i \in DOMAIN results' :
                 i > Len(results) => queries'[results'[i].query_id].cycle # cyc[c].id]_vars

\* C8: the query row and the new result rows of a template are stored
\* together or not at all: every query row has exactly results_count result
\* rows, only stored rows are handed to validation, and a turn of the template
\* loop that found n new results either stores nothing and hands on nothing,
\* or stores one query row and the n rows and hands on exactly these; either
\* way the loop goes on to the next template.
C8_SaveAtomic ==
    /\ [](\A q \in DOMAIN queries :
            Cardinality({i \in DOMAIN results : results[i].query_id = q})
               = queries[q].results_count)
    /\ [](\A c \in Proc :
            Range(cyc[c].allNewResults) \subseteq ResultsOf(cyc[c].id))
    /\ [][\A c \in Proc :
            LET n == cyc'[c].stats.ResultsNew - cyc[c].stats.ResultsNew IN
            (cyc'[c].id = cyc[c].id /\ n > 0)
               => /\ cyc'[c].pc = "search"
                  /\ cyc'[c].tmpl = cyc[c].tmpl + 1
                  /\ \/ /\ queries' = queries
                        /\ results' = results
                        /\ cyc'[c].allNewResults = cyc[c].allNewResults
                     \/ /\ Len(queries') = Len(queries) + 1
                        /\ Len(results') = Len(results) + n
                        /\ cyc'[c].allNewResults =
                              cyc[c].allNewResults
                                 \o [i \in 1..n |-> Len(results) + i]]_vars

\* C8 witness: a save has failed (the cycle counted new results that are not
\* stored) and the loop stands before the next template.
C8_Witness ==
    \E c \in Proc :
        /\ cyc[c].pc = "search"
        /\ cyc[c].tmpl = 2
        /\ cyc[c].tmpl <= NTemplates
        /\ cyc[c].stats.ResultsNew > Cardinality(ResultsOf(cyc[c].id))
        /\ cyc[c].allNewResults = <<>>

\* C9: a cycle has written exactly one search_queries row for every grounded
\* search it has issued.
C9_OneRowPerSearch ==
    \A c \in Proc :
        cyc[c].id # 0
            => Cardinality(QueriesOf(cyc[c].id)) = SearchCalls(cyc[c])

\* C10: when a cycle has returned without error, none of the results it
\* validated as a valid rfp_page or portal_listing is still research-pending.
C10_ResearchRuns ==
    \A c \in Proc :
        (cyc[c].pc = "none" /\ cyc[c].err = "nil")
            => \A i \in ResultsOf(cyc[c].id) :
                 ~ /\ results[i].url_validated
                   /\ results[i].url_valid
                   /\ results[i].content_type \in {"rfp_page", "portal_listing"}
                   /\ results[i].research_status = "pending"

\* Results the workers of the cycle of frame cy have counted.
ValidationsCounted(cy) == cy.stats.Validated + cy.stats.ValidationFailed

\* C11: a validation that runs on a done cycle context is not counted in
\* ValidationFailed and is not stored as url_validated with url_valid false.
C11_CancelledNotFailed ==
    [][\A c \in Proc :
         (cyc[c].ctxDone /\ cyc'[c].id = cyc[c].id)
            => /\ cyc'[c].stats.ValidationFailed = cyc[c].stats.ValidationFailed
               /\ \A i \in ResultsOf(cyc[c].id) :
                    (results'[i].url_validated /\ ~results'[i].url_valid)
                       => results[i].url_validated]_vars

\* C12: a cycle that got its templates and returns while its context is live
\* returns without error, after one grounded search per enabled template and
\* with every result it saved validated and counted, whatever searches, saves,
\* validations or validation writes failed on the way; and no turn of the
\* template loop taken on a live context leaves the loop early.
C12_FailuresIsolated ==
    /\ [][\A c \in Proc :
            (/\ cyc[c].pc \in {"search", "validate"}
             /\ ~cyc[c].ctxDone
             /\ cyc'[c].pc = "none")
               => /\ cyc'[c].err = "nil"
                  /\ SearchCalls(cyc'[c]) = NTemplates
                  /\ \A w \in Range(cyc'[c].allNewResults) :
                       workers'[w].pc = "done"
                  /\ ValidationsCounted(cyc'[c]) =
                        Len(cyc'[c].allNewResults)]_vars
    /\ [][\A c \in Proc :
            (/\ cyc[c].pc = "search"
             /\ ~cyc[c].ctxDone
             /\ cyc[c].tmpl <= NTemplates
             /\ (cyc'[c].pc # cyc[c].pc \/ cyc'[c].stats # cyc[c].stats))
               => /\ cyc'[c].pc = "search"
                  /\ cyc'[c].tmpl = cyc[c].tmpl + 1
                  /\ SearchCalls(cyc'[c]) = SearchCalls(cyc[c]) + 1]_vars

\* C12 witness: a cycle has returned without error although its first search
\* failed; the results of its second template are saved and validated.
C12_Witness ==
    \E c \in Proc :
        /\ cyc[c].pc = "none"
        /\ cyc[c].err = "nil"
        /\ cyc[c].stats.QueriesFailed = 1
        /\ cyc[c].stats.ValidationFailed >= 1
        /\ Len(cyc[c].allNewResults) = Len(URLSeq)

\* C13: a cycle of Run that ends with an error leaves Run in its loop, where
\* the next tick starts a new cycle, and Run leaves the loop only on stop; a
\* cycle that fails to load its templates returns an error having issued no
\* search and no validation.
C13_FatalEndsCycleOnly ==
    /\ [][(Executing("run") /\ ~Executing("run")')
            => runPc' = "select" /\ running']_vars
    /\ []((runPc = "select" /\ ncycles < MaxCycles) => ENABLED Tick)
    /\ [][(runPc # "done" /\ runPc' = "done") => stop]_vars
    /\ [][\A c \in Proc :
            (cyc[c].pc = "load" /\ cyc'[c].pc = "none")
               => /\ cyc'[c].err = "error"
                  /\ SearchCalls(cyc'[c]) = 0
                  /\ ValidationsCounted(cyc'[c]) = 0
                  /\ cyc'[c].allNewResults = <<>>
                  /\ ResultsOf(cyc[c].id)' = {}]_vars

\* C13 witness: Run's first cycle ended with an error, stop is open, and Run
\* is inside the cycle its next tick started.
C13_Witness ==
    /\ cyc["run"].id = 2
    /\ Executing("run")
    /\ cyc["once"].id = 0
    /\ ~stop
    /\ faults = 1
    /\ queries = <<>>
    /\ cyc["run"].pc = "search"
    /\ cyc["run"].tmpl = 1

\* C14: between two consecutive grounded searches of a cycle a query delay
\* takes place: a cycle has waited at least once less than it has searched.
C14_DelayBetweenSearches ==
    \A c \in Proc : cyc[c].delays >= SearchCalls(cyc[c]) - 1

\* C15: Run returns only on a closed stop channel and with no cycle of its
\* own executing, and when it has returned the running flag is false, so that
\* Run can be called again.
C15_RunReturnsAfterCycle ==
    /\ [][(runPc # "done" /\ runPc' = "done")
            => stop /\ ~Executing("run") /\ ~running']_vars
    /\ [](runPc = "done"
            => /\ ~Executing("run")
               /\ ~running
               /\ (ncycles < MaxCycles => ENABLED Run))

\* C15 witness: stop was closed while Run's cycle executed, the cycle has
\* returned since and so has Run.
C15_Witness ==
    /\ runPc = "done"
    /\ stop
    /\ cyc["run"].id # 0
    /\ cyc["run"].stats.QueriesExecuted = NTemplates

\* The Research call has returned.
Returned == agent.pc = "returned"

\* The actions of the recorded steps, in order.
ActionsTaken == [i \in DOMAIN agent.res.Steps |-> agent.res.Steps[i].Action]

\* The steps of the result that carry a terminal action.
TerminalSteps ==
    {i \in DOMAIN agent.res.Steps : agent.res.Steps[i].Action \in TerminalActions}

\* C16: the steps a Research run records are numbered 1, 2, ..., n; when it
\* has returned exactly one of them is terminal, it is the last one, and
\* n <= max_steps + 1.
C16_StepsDenseOneTerminal ==
    /\ \A i \in DOMAIN agent.res.Steps : agent.res.Steps[i].StepNumber = i
    /\ Returned
          => /\ TerminalSteps = {Len(agent.res.Steps)}
             /\ Len(agent.res.Steps) >= 1
             /\ Len(agent.res.Steps) <= agent.maxSteps + 1

\* C16 witness: a run has returned with max_steps + 1 steps, more than two.
C16_Witness ==
    /\ Returned
    /\ Len(agent.res.Steps) = agent.maxSteps + 1
    /\ agent.maxSteps >= 2

\* C17: a returned run ends with give_up exactly when its status is
\* research_exhausted, which is exactly when max_steps actions were executed
\* and none of them was terminal; then StepsTaken = max_steps and give_up has
\* number max_steps + 1. With max_steps = 1 the executed action is fetch_page.
\* The returned status is never researching.
C17_GiveUpWhenExhausted ==
    Returned =>
      LET steps == agent.res.Steps
          executed == 1..agent.res.StepsTaken
          gaveUp == steps # <<>> /\ steps[Len(steps)].Action = "give_up"
      IN  /\ gaveUp <=> agent.res.Status = "research_exhausted"
          /\ gaveUp <=> /\ agent.res.StepsTaken = agent.maxSteps
                        /\ \A i \in executed :
                             steps[i].Action \notin TerminalActions
          /\ gaveUp => /\ Len(steps) = agent.maxSteps + 1
                       /\ steps[Len(steps)].StepNumber = agent.maxSteps + 1
          /\ agent.maxSteps = 1
                => agent.res.StepsTaken = 1 /\ steps[1].Action = "fetch_page"
          /\ agent.res.Status # "researching"
          /\ agent.res.Status # ""

\* C17 witness: a run with max_steps = 1 has returned exhausted.
C17_Witness ==
    /\ Returned
    /\ agent.maxSteps = 1
    /\ agent.res.Status = "research_exhausted"
    /\ ActionsTaken = <<"fetch_page", "give_up">>

\* C18: within one Research run the page is fetched at most once and the
\* extraction is called at most once.
C18_NoRetryInRun ==
    /\ Cardinality(StepsOf(agent.res.Steps, "fetch_page")) <= 1
    /\ Cardinality(StepsOf(agent.res.Steps, "extract_details")) <= 1

\* C19: a run with the default step limit on a page that fetches with plain
\* text and whose extraction yields an empty title returns with the steps
\* fetch_page, extract_details, discover_pdfs, mark_needs_manual and the
\* status needs_manual.
C19_EmptyTitleNeedsManual ==
    (/\ Returned
     /\ agent.maxSteps = defaultMaxSteps
     /\ agent.page = [fetch |-> Fetched(PlainDoc), extract |-> "empty title"])
        => /\ ActionsTaken = <<"fetch_page", "extract_details",
                               "discover_pdfs", "mark_needs_manual">>
           /\ agent.res.Status = "needs_manual"

\* A page that fetches with text that shows no login wall and whose first
\* extraction returns a title.
GoodPage ==
    /\ ~agent.page.fetch.err
    /\ htmlToText(agent.page.fetch.body) # <<>>
    /\ ~detectLoginWall(htmlToText(agent.page.fetch.body))
    /\ agent.page.extract = "title"

\* The run recorded fetch_page, extract_details, discover_pdfs, mark_complete
\* as steps 1 to 4 and ended researched.
CompleteRun ==
    /\ ActionsTaken = <<"fetch_page", "extract_details",
                        "discover_pdfs", "mark_complete">>
    /\ \A i \in 1..4 : agent.res.Steps[i].StepNumber = i
    /\ agent.res.Status = "researched"

\* C20 as stated: on such a page, whatever the step limit, the run is the
\* complete run.
C20_HappyPathAnyLimit == (Returned /\ GoodPage) => CompleteRun

\* C20 amended: on such a page the run is the complete run when the step
\* limit is at least 4; with a smaller limit it is the first max_steps actions
\* of the complete run followed by give_up, and ends research_exhausted.
C20_HappyPath ==
    (Returned /\ GoodPage)
       => IF agent.maxSteps >= 4
          THEN CompleteRun
          ELSE /\ ActionsTaken =
                    Append(SubSeq(<<"fetch_page", "extract_details",
                                    "discover_pdfs", "mark_complete">>,
                                  1, agent.maxSteps),
                           "give_up")
               /\ agent.res.Status = "research_exhausted"

\* C20 witness: a run with a step limit of at least 4 has returned from
\* such a page.
C20_Witness ==
    /\ Returned
    /\ GoodPage
    /\ agent.maxSteps >= 4
    /\ Len(agent.res.Steps) = 4

\* C21: a run with the default step limit on a page whose body has a password
\* input and the visible words "Sign in" returns with exactly the steps
\* fetch_page, mark_login_required, the status needs_manual_upload, and no
\* extraction.
C21_PasswordInputIsLoginWall ==
    (/\ Returned
     /\ agent.maxSteps = defaultMaxSteps
     /\ agent.page.fetch = Fetched(PasswordInputDoc))
        => /\ ActionsTaken = <<"fetch_page", "mark_login_required">>
           /\ agent.res.Status = "needs_manual_upload"
           /\ StepsOf(agent.res.Steps, "extract_details") = {}

\* C22: once discover_pdfs has run, FoundPDFs holds each distinct absolute
\* PDF link of the fetched page's raw HTML exactly once.
C22_PDFsFromRawPage ==
    agent.rc.pdfSearchDone
        => agent.rc.FoundPDFs = PDFLinks(agent.page.fetch.body)

\* Two RFPs of the corpus in one cluster: agencies not empty and equal once
\* normalized, states equal once normalized, due dates at most three days
\* apart.
SameCluster(r1, r2) ==
    /\ r1.Agency # <<>>
    /\ r2.Agency # <<>>
    /\ NormalizeAgency(r1.Agency) = NormalizeAgency(r2.Agency)
    /\ NormalizeState(r1.State) = NormalizeState(r2.State)
    /\ r1.DueDate.present
    /\ r2.DueDate.present
    /\ DatesMatch(Format(r1.DueDate), Format(r2.DueDate))

\* C23: when RFPs are inserted only after CheckDuplicate on the current
\* corpus reported no match, no two RFPs of the corpus with non-empty agency
\* have the same normalized agency, the same normalized state and due dates
\* within 3 days of each other.
C23_OneRFPPerCluster ==
    \A i, j \in DOMAIN matcher.existingRFPs :
        SameCluster(matcher.existingRFPs[i], matcher.existingRFPs[j]) => i = j

\* C24: for every RFP of the corpus with non-empty agency, non-empty state
\* and a due date, CheckDuplicate called with that RFP's own agency, state
\* and due date finds a match, the match is that RFP, and the score is at
\* least 0.95.
C24_OwnHintsMatch ==
    matcher.pc = "checked" =>
        \A i \in DOMAIN matcher.existingRFPs :
            LET rfp == matcher.existingRFPs[i]
            IN  (/\ rfp.Agency # <<>>
                 /\ rfp.State # ""
                 /\ rfp.DueDate.present
                 /\ matcher.hint = [agency |-> rfp.Agency, state |-> rfp.State,
                                   dueDate |-> Format(rfp.DueDate)])
                => /\ matcher.res.FoundMatch
                   /\ matcher.res.MatchedRFPID = rfp.ID
                   /\ matcher.res.MatchScore >= 95

\* The candidates selected for the hints of the last call, and the score of
\* each.
Selected ==
    findCandidates(matcher.existingRFPs, NormalizeAgency(matcher.hint.agency),
                   NormalizeState(matcher.hint.state))

ScoreOf(rfp) ==
    calculateMatchScore(rfp, NormalizeAgency(matcher.hint.agency),
                        NormalizeState(matcher.hint.state),
                        NormalizeDate(matcher.hint.dueDate))

\* C25: CheckDuplicate finds a match exactly when some selected candidate
\* scores at least 0.70, and then returns a candidate of the highest score,
\* the one of lowest id among those, whatever the order of the corpus; an
\* empty agency hint gives no match with reason "No agency hint available".
C25_BestCandidateLowestId ==
    matcher.pc = "checked" =>
        IF matcher.hint.agency = <<>>
        THEN /\ ~matcher.res.FoundMatch
             /\ matcher.res.Reason = "No agency hint available"
        ELSE /\ matcher.res.FoundMatch
                  <=> \E k \in DOMAIN Selected :
                         ScoreOf(Selected[k]) >= MatchThreshold
             /\ matcher.res.FoundMatch =>
                  \E k \in DOMAIN Selected :
                     /\ Selected[k].ID = matcher.res.MatchedRFPID
                     /\ ScoreOf(Selected[k]) = matcher.res.MatchScore
                     /\ \A l \in DOMAIN Selected :
                           \/ ScoreOf(Selected[l]) < ScoreOf(Selected[k])
                           \/ /\ ScoreOf(Selected[l]) = ScoreOf(Selected[k])
                              /\ Selected[l].ID >= Selected[k].ID

\* C26: the agency predicate is symmetric: AgencyMatches(a, b) equals
\* AgencyMatches(b, a) for all strings a and b.
C26_AgencyMatchesSymmetric ==
    (call.fn = "AgencyMatches" /\ call.pc = "returned") =>
        call.out = AgencyMatches(call.args[2], call.args[1])

\* Two different names that match by similarity alone (neither contains
\* the other) were compared.
C26_Witness ==
    /\ call.fn = "AgencyMatches"
    /\ call.pc = "returned"
    /\ call.out
    /\ call.args[1] # call.args[2]
    /\ ~Contains(call.args[1], call.args[2])
    /\ ~Contains(call.args[2], call.args[1])

\* C27: the canonicalizer is idempotent: cleaning its own result gives the
\* result again, and a rejected input (the empty result) stays rejected.
C27_CleanURLIdempotent ==
    (call.fn = "cleanURL" /\ call.pc = "returned") =>
        cleanURL(call.out) = call.out

\* The URLs that differ from u by a permutation of the query parameters.
Permuted(u) ==
    LET n == Len(u.params)
    IN  {[u EXCEPT !.params = [i \in 1..n |-> u.params[f[i]]]] :
            f \in {g \in [1..n -> 1..n] :
                      \A i, j \in 1..n : g[i] = g[j] => i = j}}

\* C28: the canonicalizer is order-stable: two URLs that differ only by a
\* permutation of their query parameters, repeated keys included, have the
\* same canonical form (URLs that nothing trails, so that the parameters
\* are the same ones in any order).
C28_QueryOrderStable ==
    (/\ call.fn = "cleanURL"
     /\ call.pc = "returned"
     /\ call.args[1].suffix = <<>>)
    => \A v \in Permuted(call.args[1]) : cleanURL(Text(v)) = call.out

\* C29: the canonicalizer rejects (returns the empty string for) every
\* input whose scheme is not http or https or whose host is empty.
C29_RejectsOtherSchemes ==
    (call.fn = "cleanURL" /\ call.pc = "returned") =>
        LET parsed == Parse(Text(call.args[1]))
        IN  (\/ parsed.Scheme \notin {<<"h", "t", "t", "p">>,
                                     <<"h", "t", "t", "p", "s">>}
             \/ parsed.Host = <<>>)
            => call.out = <<>>


\* C30: the result list of one grounded search holds no two entries with
\* the same canonical URL and no URL containing
\* vertexaisearch.cloud.google.com; the grounding-chunk results come before
\* the text-extraction results; a URL that a chunk gives is listed as
\* grounding_chunk, also when the text gives it too; results_count is the
\* length of the list.
C30_ResultListDeduplicated ==
    (call.fn = "Search" /\ call.pc = "returned" /\ ~call.out.err) =>
        LET rs == call.out.Results
            resp == call.args[1]
        IN  /\ \A i, j \in DOMAIN rs : rs[i].URL = rs[j].URL => i = j
            /\ \A i \in DOMAIN rs : ~Contains(rs[i].URL, redirectHost)
            /\ \A i, j \in DOMAIN rs :
                  (i < j /\ rs[i].Source = "text_extraction")
                  => rs[j].Source = "text_extraction"
            /\ \A k \in DOMAIN resp.GroundingChunks :
                  LET url == cleanURL(resp.GroundingChunks[k])
                  IN  (url # <<>> /\ ~Contains(url, redirectHost))
                      => \E i \in DOMAIN rs :
                            rs[i] = Result(url, "grounding_chunk")
            /\ call.out.ResultsCount = Len(rs)

\* A search returned one result for two chunks that differ in a tracking
\* parameter only and a text that names the same page.
C30_Witness ==
    /\ call.fn = "Search"
    /\ call.pc = "returned"
    /\ Len(call.args[1].GroundingChunks) = 2
    /\ call.args[1].GroundingChunks[1] # call.args[1].GroundingChunks[2]
    /\ cleanURL(call.args[1].GroundingChunks[1]) # <<>>
    /\ cleanURL(call.args[1].GroundingChunks[1])
          = cleanURL(call.args[1].GroundingChunks[2])
    /\ Len(call.args[1].Parts) = 1
    /\ extractURLsFromText(call.args[1].Parts[1]) # <<>>
    /\ call.out.ResultsCount = 1
    /\ call.out.Results[1].Source = "grounding_chunk"

\* C31: validating a URL whose chain of redirects is longer than the budget
\* of maxRedirects redirects yields valid = false with status
\* too_many_redirects.
C31_TooManyRedirects ==
    (/\ call.fn = "Validate"
     /\ call.pc = "returned"
     /\ call.out.Status # "invalid_url"
     /\ call.args[2].hops > maxRedirects)
    => /\ call.out.Valid = FALSE
       /\ call.out.Status = "too_many_redirects"

\* C33: the validator's and the agent's login-wall detectors agree on
\* unambiguous inputs: on a body with a password input both report a login
\* wall; on a body that only mentions a login phrase (no password input, no
\* form term) both report none, the final URL having no authentication
\* pattern.
C33_DetectorsAgree ==
    (call.fn = "detectLoginWall" /\ call.pc = "returned") =>
        LET body == call.args[1]
            passwordInput == \E i \in DOMAIN body : body[i].kind = "input"
            mention ==
                /\ \E i \in DOMAIN body : HasLoginIndicator(body[i].data)
                /\ \A i \in DOMAIN body : ~HasFormTerm(body[i].data)
            plainURL == ~Contains(call.args[2], <<"/", "l", "o", "g", "i", "n">>)
        IN  /\ passwordInput => (call.out.validator /\ call.out.agent)
            /\ (mention /\ ~passwordInput /\ plainURL) =>
                   (~call.out.validator /\ ~call.out.agent)

\* C32: DownloadAndStore is idempotent per (pdf_url, rfp_id): the key is a
\* function of the pair, and a call made when that key is in the bucket
\* returns success with that key, without a download or an upload, and
\* leaves the bucket as it was.
C32_DownloadIdempotent ==
    [][(downloader'.result.R2Key \in DOMAIN downloader.objects) =>
          /\ downloader'.result.R2Key =
                generateKey(downloader'.pdfURL, downloader'.rfpID)
          /\ ~downloader'.err
          /\ downloader'.result.R2URL
          /\ ~downloader'.downloaded
          /\ ~downloader'.uploaded
          /\ downloader'.objects = downloader.objects]_vars

\* C39: the key depends only on the rfp id and the file name (the last
\* element of the URL's path): when a call has stored the PDF of one URL and
\* the next call is on another URL of the same RFP with the same file name,
\* the key is the same, the call reports success without a download, and
\* the first document's bytes stay under the key.
C39_SameFileNameSameKey ==
    [][(/\ downloader.uploaded
        /\ downloader'.rfpID = downloader.rfpID
        /\ downloader'.pdfURL # downloader.pdfURL
        /\ ~Parse(downloader.pdfURL).err
        /\ ~Parse(downloader'.pdfURL).err
        /\ Base(Parse(downloader'.pdfURL).Path)
             = Base(Parse(downloader.pdfURL).Path)
        /\ Base(Parse(downloader.pdfURL).Path) \notin {<<".">>, <<"/">>})
       => /\ downloader'.result.R2Key = downloader.result.R2Key
          /\ ~downloader'.err
          /\ ~downloader'.downloaded
          /\ downloader'.objects = downloader.objects]_vars

\* C34: decideAction is a function of the ResearchContext that returns
\* exactly one action, the first matching row of the decision table:
\* fetchFailed -> mark_needs_manual; else empty page text -> fetch_page; else
\* login wall -> mark_login_required; else extraction absent or title empty
\* -> extract_details; else PDF discovery not done -> discover_pdfs; else
\* mark_complete. The context is left as it was.
C34_DecisionTable ==
    (call.fn = "decideAction" /\ call.pc = "returned") =>
        LET rc == call.args[1]
            rows == << <<rc.fetchFailed, "mark_needs_manual">>,
                       <<rc.PageContent = <<>>, "fetch_page">>,
                       <<detectLoginWall(rc.PageContent), "mark_login_required">>,
                       <<~rc.ExtractedDetails.present
                            \/ rc.ExtractedDetails.Title = "", "extract_details">>,
                       <<~rc.pdfSearchDone, "discover_pdfs">>,
                       <<TRUE, "mark_complete">> >>
            first == CHOOSE i \in DOMAIN rows :
                        rows[i][1] /\ \A j \in 1..(i - 1) : ~rows[j][1]
        IN  /\ call.out.Name = rows[first][2]
            /\ call.out.rc = rc

\* C34 witness: the call returned discover_pdfs on a context with page
\* text, a title and the PDF discovery still to do.
C34_Witness ==
    /\ call.fn = "decideAction"
    /\ call.pc = "returned"
    /\ call.out.Name = "discover_pdfs"
    /\ call.args[1].PageContent # <<>>
    /\ call.args[1].ExtractedDetails.Title # ""
    /\ ~call.args[1].pdfSearchDone

\* C37: in every Research run mark_needs_manual is chosen only in the step
\* right after a failed fetch_page, and Research never returns the status
\* failed: an action's error is recorded on its step only (Success false),
\* the run goes on and another step follows it.
C37_NeedsManualOnlyAfterFailedFetch ==
    LET steps == agent.res.Steps IN
    /\ \A i \in DOMAIN steps :
          steps[i].Action = "mark_needs_manual"
             => /\ i > 1
                /\ steps[i - 1].Action = "fetch_page"
                /\ ~steps[i - 1].Success
    /\ \A i \in DOMAIN steps :
          (~steps[i].Success /\ steps[i].Action # "give_up")
             => /\ (agent.pc = "loop" /\ i = Len(steps))
                      => agent.rc.Status = "researching"
                /\ Returned => i < Len(steps)
    /\ Returned => /\ agent.res.Status # "failed"
                   /\ agent.res.Success

\* C37 witness: a run has returned needs_manual, successfully, after a
\* fetch_page that failed.
C37_Witness ==
    /\ Returned
    /\ agent.res.Success
    /\ agent.res.Status = "needs_manual"
    /\ ActionsTaken = <<"fetch_page", "mark_needs_manual">>
    /\ ~agent.res.Steps[1].Success

\* C38: a known due-date mismatch does not by itself prevent a merge. When
\* the hint's normalized agency equals that of an RFP of the corpus, the
\* hint's state is that RFP's state, and both due dates are known and more
\* than 3 days apart, CheckDuplicate reports a match, and that RFP scores
\* 0.5 + 0.2 = 0.70, the threshold. When the agencies match by similarity
\* only, the same inputs score 0.60, and on a corpus of that RFP alone no
\* match is reported.
C38_DateMismatchStillMerges ==
    matcher.pc = "checked" =>
        \A i \in DOMAIN matcher.existingRFPs :
            LET rfp == matcher.existingRFPs[i]
                agency == NormalizeAgency(matcher.hint.agency)
                rfpAgency == NormalizeAgency(rfp.Agency)
                date == NormalizeDate(matcher.hint.dueDate)
                apart == /\ matcher.hint.agency # <<>>
                         /\ matcher.hint.state # ""
                         /\ NormalizeState(matcher.hint.state)
                               = NormalizeState(rfp.State)
                         /\ date # NoDate
                         /\ rfp.DueDate.present
                         /\ ~DatesMatch(date, Format(rfp.DueDate))
            IN  /\ (apart /\ rfpAgency = agency)
                      => /\ matcher.res.FoundMatch
                         /\ matcher.res.MatchScore >= MatchThreshold
                         /\ ScoreOf(rfp) = 70
                         /\ Len(matcher.existingRFPs) = 1
                               => /\ matcher.res.MatchedRFPID = rfp.ID
                                  /\ matcher.res.MatchScore = 70
                /\ (apart /\ rfpAgency # agency
                          /\ AgencyMatches(rfpAgency, agency))
                      => /\ ScoreOf(rfp) = 60
                         /\ Len(matcher.existingRFPs) = 1
                               => ~matcher.res.FoundMatch

\* C35: the counters of CycleStats are conserved. Once the search phase of a
\* cycle is over, ResultsFound = ResultsNew + ResultsSkipped and
\* QueriesExecuted + QueriesFailed is the number of templates searched; when
\* the validation phase has completed without an error, Validated +
\* ValidationFailed is the number of search_results rows the cycle saved,
\* which is at most ResultsNew.
C35_StatsConserved ==
    \A c \in Proc :
        LET cy == cyc[c]
            searchOver == cy.pc = "validate" \/ (cy.pc = "none" /\ cy.id # 0)
            saved == Cardinality(ResultsOf(cy.id))
        IN  /\ searchOver =>
                 /\ cy.stats.ResultsFound
                       = cy.stats.ResultsNew + cy.stats.ResultsSkipped
                 /\ cy.stats.QueriesExecuted + cy.stats.QueriesFailed
                       = cy.tmpl - 1
            /\ (cy.pc = "none" /\ cy.id # 0 /\ cy.err = "nil") =>
                 /\ cy.stats.Validated + cy.stats.ValidationFailed = saved
                 /\ saved <= cy.stats.ResultsNew

\* C35 witness: a cycle has returned without error after it skipped a
\* result, saved rows and validated them.
C35_Witness ==
    \E c \in Proc :
        /\ cyc[c].pc = "none"
        /\ cyc[c].err = "nil"
        /\ cyc[c].stats.ResultsSkipped >= 1
        /\ cyc[c].stats.Validated + cyc[c].stats.ValidationFailed >= 1
        /\ cyc[c].stats.QueriesExecuted = NTemplates

\* C36: a cycle validates exactly the search_results rows it inserted
\* itself. A worker is started for a row only by the cycle that inserted
\* it; and once that cycle has ended with a row it started no worker for,
\* no later step starts one, no later insert carries the row's URL again
\* (skip_seen_urls is on), and the row keeps url_validated = false.
C36_OrphanRowsStayUnvalidated ==
    [][\A w \in DOMAIN results :
          LET k == CycleOf(w)
              ended == \A c \in Proc : cyc[c].id = k => cyc[c].pc = "none"
          IN  /\ (workers[w].pc = "none" /\ workers'[w].pc # "none")
                    => \E c \in Proc : cyc[c].id = k /\ cyc[c].pc = "validate"
              /\ (ended /\ workers[w].pc = "none")
                    => /\ workers'[w].pc = "none"
                       /\ ~results'[w].url_validated
                       /\ \A i \in DOMAIN results' \ DOMAIN results :
                             results'[i].url # results[w].url]_vars

====
